---------------------------- MODULE Spec2Model ----------------------------
(***************************************************************************)
(* A model of the civilrightsalert request handlers (Netlify functions):   *)
(* get-bills, state-bills, bill-detail and city-council, and of the pure   *)
(* normalisers they use (ordinalSuffix, buildPublicUrl, deriveBillStage,   *)
(* the votes summary, the members roster).                                 *)
(*                                                                         *)
(* JavaScript strings are sequences of one-character strings, so that     *)
(* includes(), toLowerCase(), split() and replace() are computed           *)
(* character by character.  A JavaScript value is a record [t, s, n]: its  *)
(* type tag, its characters when a string, its value when a number.        *)
(***************************************************************************)
EXTENDS Integers, Sequences, FiniteSets, TLC

VARIABLES
    actionText,   \* deriveBillStage: the argument
    stage,        \* deriveBillStage: the value returned (NoResult before the call)
    bill,         \* buildPublicUrl: the raw bill of the upstream list
    publicUrl,    \* buildPublicUrl(bill) (Pending before the call)
    legacyUrl,    \* public_url of the earlier get-bills for the same bill
    reparsedUrl,  \* buildPublicUrl of a bill whose only field is url = publicUrl
    voteHistory,  \* votes: the valueName of each vote of the person, in order
    summary,      \* votes: the summary object (NoSummary before it is computed)
    event,        \* handlers: the function invoked, the method, process.env, the query
    pc,           \* handlers: "start", the await the handler is suspended at, "done"
    requests,     \* handlers: the outbound requests issued so far, in order
    inflight,     \* handlers: the lookups of a Promise.all that have not settled
    settled,      \* handlers: the reply of each lookup of a Promise.all that has
    local,        \* handlers: the local variables kept across awaits
    response,     \* handlers: the response returned (NoResponse before the return)
    upstream,     \* members: what Bodies, OfficeRecords and Persons hold
    roster,       \* members: the locals of the members branch
    ordinalArg,   \* ordinalSuffix: the argument n
    listOrdinal,  \* ordinalSuffix(n) of the bill-list handler (Pending before the call)
    detailOrdinal,\* ordinalSuffix(n) of the bill-detail handler (Pending before the call)
    billPriority, \* statusPriority(b) of the bill whose latest action is actionText
    statePriority,\* statusPriorityFromStatusText(statusText), the status text being actionText
    rawActions,   \* bill-detail: actionsData.actions as the upstream returns it
    actions       \* bill-detail: the actions array of the response (Pending before the sort)

stageVars == <<actionText, stage>>

urlVars == <<bill, publicUrl, legacyUrl, reparsedUrl>>

votesVars == <<voteHistory, summary>>

handlerVars == <<event, pc, requests, inflight, settled, local, response, upstream, roster>>

ordinalVars == <<ordinalArg, listOrdinal, detailOrdinal>>

actionsVars == <<rawActions, actions>>

priorityVars == <<billPriority, statePriority>>

vars == <<stageVars, urlVars, votesVars, handlerVars, ordinalVars, actionsVars, priorityVars>>

(***************************************************************************)
(* JavaScript values and strings                                           *)
(***************************************************************************)

Undef == [t |-> "undefined", s |-> <<>>, n |-> 0]

Str(chars) == [t |-> "string", s |-> chars, n |-> 0]

Num(k) == [t |-> "number", s |-> <<>>, n |-> k]

\* Number("abc"): typeof NaN is "number", the tag only keeps it apart from Num(k)
NaN == [t |-> "NaN", s |-> <<>>, n |-> 0]

\* ToBoolean: undefined, "", 0 and NaN are falsy
Truthy(v) ==
    CASE v.t = "undefined" -> FALSE
      [] v.t = "NaN" -> FALSE
      [] v.t = "string" -> v.s # <<>>
      [] v.t = "number" -> v.n # 0

\* a || b
Or(a, b) == IF Truthy(a) THEN a ELSE b

UpperChars == <<"A","B","C","D","E","F","G","H","I","J","K","L","M","N","O","P","Q","R","S","T","U","V","W","X","Y","Z">>

LowerChars == <<"a","b","c","d","e","f","g","h","i","j","k","l","m","n","o","p","q","r","s","t","u","v","w","x","y","z">>

Digits == <<"0","1","2","3","4","5","6","7","8","9">>

IsDigit(c) == \E i \in 1..10 : Digits[i] = c

toLowerChar(c) ==
    IF \E i \in 1..26 : UpperChars[i] = c
    THEN LowerChars[CHOOSE i \in 1..26 : UpperChars[i] = c]
    ELSE c

\* String.prototype.toLowerCase
toLowerCase(chars) == [i \in 1..Len(chars) |-> toLowerChar(chars[i])]

\* String.prototype.includes: k occurs in t as a contiguous substring
includes(t, k) ==
    \E i \in 1..(Len(t) - Len(k) + 1) : \A j \in 1..Len(k) : t[i + j - 1] = k[j]

RECURSIVE Concat(_)
\* the concatenation of a sequence of strings (a template literal's parts)
Concat(parts) == IF parts = <<>> THEN <<>> ELSE Head(parts) \o Concat(Tail(parts))

(***************************************************************************)
(* Stage classifier: deriveBillStage (get-bills)                           *)
(***************************************************************************)

\* the stage variable before deriveBillStage has returned
NoResult == [display |-> "", priority |-> 0]

\* (actionText || "").toLowerCase() on a truthy non-string: a TypeError is thrown
StageTypeError == [display |-> "TypeError", priority |-> 0]

Stage(d, p) == [display |-> d, priority |-> p]

deriveBillStage_swapped(text) ==
    LET v == Or(text, Str(<<>>)) IN
    IF v.t # "string" THEN StageTypeError
    ELSE LET t == toLowerCase(v.s) IN
      IF includes(t, <<"b","e","c","a","m","e"," ","p","u","b","l","i","c"," ","l","a","w">>) \/ includes(t, <<"s","i","g","n","e","d"," ","b","y"," ","p","r","e","s","i","d","e","n","t">>) \/ includes(t, <<"e","n","a","c","t","e","d">>)
      THEN Stage("Signed Into Law", 10)
      ELSE IF includes(t, <<"v","e","t","o","e","d">>)
      THEN Stage("Vetoed", 9)
      ELSE IF includes(t, <<"p","a","s","s","e","d"," ","h","o","u","s","e">>) \/ includes(t, <<"p","a","s","s","e","d"," ","s","e","n","a","t","e">>) \/ includes(t, <<"a","g","r","e","e","d"," ","t","o"," ","i","n">>)
      THEN Stage("Passed Chamber", 8)
      ELSE IF includes(t, <<"c","l","o","t","u","r","e">>) \/ includes(t, <<"f","l","o","o","r"," ","c","o","n","s","i","d","e","r","a","t","i","o","n">>) \/ includes(t, <<"p","l","a","c","e","d"," ","o","n"," ","c","a","l","e","n","d","a","r">>)
      THEN Stage("Floor Vote Pending", 7)
      ELSE IF includes(t, <<"r","e","p","o","r","t","e","d"," ","b","y">>) \/ includes(t, <<"o","r","d","e","r","e","d"," ","t","o"," ","b","e"," ","r","e","p","o","r","t","e","d">>)
      THEN Stage("Reported by Committee", 6)
      ELSE IF includes(t, <<"h","e","a","r","i","n","g">>) \/ includes(t, <<"m","a","r","k","u","p">>)
      THEN Stage("Committee Hearing", 5)
      ELSE IF includes(t, <<"i","n","t","r","o","d","u","c","e","d">>) \/ includes(t, <<"r","e","a","d"," ","t","w","i","c","e">>) \/ includes(t, <<"s","p","o","n","s","o","r"," ","i","n","t","r","o","d","u","c","t","o","r","y">>)
      THEN Stage("Introduced", 3)
      ELSE IF includes(t, <<"r","e","f","e","r","r","e","d"," ","t","o">>) \/ includes(t, <<"s","u","b","c","o","m","m","i","t","t","e","e">>)
      THEN Stage("In Committee", 4)
      ELSE Stage("In Progress", 3)

deriveBillStage(text) ==
    LET v == Or(text, Str(<<>>)) IN
    IF v.t # "string" THEN StageTypeError
    ELSE LET t == toLowerCase(v.s) IN
      IF includes(t, <<"b","e","c","a","m","e"," ","p","u","b","l","i","c"," ","l","a","w">>) \/ includes(t, <<"s","i","g","n","e","d"," ","b","y"," ","p","r","e","s","i","d","e","n","t">>) \/ includes(t, <<"e","n","a","c","t","e","d">>)
      THEN Stage("Signed Into Law", 10)
      ELSE IF includes(t, <<"v","e","t","o","e","d">>)
      THEN Stage("Vetoed", 9)
      ELSE IF includes(t, <<"p","a","s","s","e","d"," ","h","o","u","s","e">>) \/ includes(t, <<"p","a","s","s","e","d"," ","s","e","n","a","t","e">>) \/ includes(t, <<"a","g","r","e","e","d"," ","t","o"," ","i","n">>)
      THEN Stage("Passed Chamber", 8)
      ELSE IF includes(t, <<"c","l","o","t","u","r","e">>) \/ includes(t, <<"f","l","o","o","r"," ","c","o","n","s","i","d","e","r","a","t","i","o","n">>) \/ includes(t, <<"p","l","a","c","e","d"," ","o","n"," ","c","a","l","e","n","d","a","r">>)
      THEN Stage("Floor Vote Pending", 7)
      ELSE IF includes(t, <<"r","e","p","o","r","t","e","d"," ","b","y">>) \/ includes(t, <<"o","r","d","e","r","e","d"," ","t","o"," ","b","e"," ","r","e","p","o","r","t","e","d">>)
      THEN Stage("Reported by Committee", 6)
      ELSE IF includes(t, <<"h","e","a","r","i","n","g">>) \/ includes(t, <<"m","a","r","k","u","p">>)
      THEN Stage("Committee Hearing", 5)
      ELSE IF includes(t, <<"r","e","f","e","r","r","e","d"," ","t","o">>) \/ includes(t, <<"s","u","b","c","o","m","m","i","t","t","e","e">>)
      THEN Stage("In Committee", 4)
      ELSE IF includes(t, <<"i","n","t","r","o","d","u","c","e","d">>) \/ includes(t, <<"r","e","a","d"," ","t","w","i","c","e">>) \/ includes(t, <<"s","p","o","n","s","o","r"," ","i","n","t","r","o","d","u","c","t","o","r","y">>)
      THEN Stage("Introduced", 3)
      ELSE Stage("In Progress", 3)

\* the number of fragments an action text is made of, at most
MaxFrags == 2

\* pieces of latest-action texts as Congress.gov writes them: every keyword of
\* the classifier occurs in one of them, in mixed case, and the last has none
ActionFragments == <<
    <<"B","e","c","a","m","e"," ","P","u","b","l","i","c"," ","L","a","w"," ","N","o",":"," ","1","1","9","-","4",".">>,
    <<"S","i","g","n","e","d"," ","b","y"," ","P","r","e","s","i","d","e","n","t",".">>,
    <<"E","N","A","C","T","E","D">>,
    <<"V","e","t","o","e","d"," ","b","y"," ","P","r","e","s","i","d","e","n","t",".">>,
    <<"P","a","s","s","e","d"," ","H","o","u","s","e">>,
    <<"P","a","s","s","e","d"," ","S","e","n","a","t","e">>,
    <<"A","g","r","e","e","d"," ","t","o"," ","i","n"," ","S","e","n","a","t","e">>,
    <<"C","l","o","t","u","r","e"," ","m","o","t","i","o","n"," ","p","r","e","s","e","n","t","e","d">>,
    <<"F","l","o","o","r"," ","c","o","n","s","i","d","e","r","a","t","i","o","n">>,
    <<"P","l","a","c","e","d"," ","o","n"," ","C","a","l","e","n","d","a","r">>,
    <<"R","e","p","o","r","t","e","d"," ","b","y"," ","t","h","e"," ","C","o","m","m","i","t","t","e","e">>,
    <<"O","r","d","e","r","e","d"," ","t","o"," ","b","e"," ","R","e","p","o","r","t","e","d">>,
    <<"S","u","b","c","o","m","m","i","t","t","e","e"," ","H","e","a","r","i","n","g","s"," ","H","e","l","d">>,
    <<"C","o","m","m","i","t","t","e","e"," ","m","a","r","k","u","p">>,
    <<"R","e","f","e","r","r","e","d"," ","t","o"," ","t","h","e"," ","H","o","u","s","e"," ","C","o","m","m","i","t","t","e","e">>,
    <<"I","n","t","r","o","d","u","c","e","d"," ","i","n"," ","H","o","u","s","e">>,
    <<"R","e","a","d"," ","t","w","i","c","e">>,
    <<"S","p","o","n","s","o","r"," ","i","n","t","r","o","d","u","c","t","o","r","y"," ","r","e","m","a","r","k","s">>,
    <<"H","e","l","d"," ","a","t"," ","t","h","e"," ","d","e","s","k",".">> >>

RECURSIVE JoinFragments(_)
JoinFragments(ix) ==
    IF ix = <<>> THEN <<>>
    ELSE IF Len(ix) = 1 THEN ActionFragments[ix[1]]
    ELSE ActionFragments[ix[1]] \o <<" ">> \o JoinFragments(Tail(ix))

\* the action texts of the model: absent, a number (malformed), and every
\* sequence of at most MaxFrags fragments separated by a blank
ActionTexts ==
    {Undef, Num(7)} \cup
    { Str(JoinFragments(ix)) :
        ix \in UNION { [1..k -> 1..Len(ActionFragments)] : k \in 0..MaxFrags } }

StageInit ==
    /\ actionText \in ActionTexts
    /\ stage = NoResult

StageIdle ==
    /\ actionText = Undef
    /\ stage = NoResult

\* get-bills calls deriveBillStage(actionText) for a raw bill
DeriveBillStage ==
    /\ stage = NoResult
    /\ stage' = deriveBillStage(actionText)
    /\ UNCHANGED actionText

(***************************************************************************)
(* Ordinal formatter and bill identity normaliser (get-bills)              *)
(***************************************************************************)

\* Map API bill type codes to Congress.gov URL slugs
TYPE_MAP == <<
    <<<<"h","r">>, <<"h","o","u","s","e","-","b","i","l","l">>>>,
    <<<<"s">>, <<"s","e","n","a","t","e","-","b","i","l","l">>>>,
    <<<<"h","j","r","e","s">>, <<"h","o","u","s","e","-","j","o","i","n","t","-","r","e","s","o","l","u","t","i","o","n">>>>,
    <<<<"s","j","r","e","s">>, <<"s","e","n","a","t","e","-","j","o","i","n","t","-","r","e","s","o","l","u","t","i","o","n">>>>,
    <<<<"h","c","o","n","r","e","s">>, <<"h","o","u","s","e","-","c","o","n","c","u","r","r","e","n","t","-","r","e","s","o","l","u","t","i","o","n">>>>,
    <<<<"s","c","o","n","r","e","s">>, <<"s","e","n","a","t","e","-","c","o","n","c","u","r","r","e","n","t","-","r","e","s","o","l","u","t","i","o","n">>>>,
    <<<<"h","r","e","s">>, <<"h","o","u","s","e","-","r","e","s","o","l","u","t","i","o","n">>>>,
    <<<<"s","r","e","s">>, <<"s","e","n","a","t","e","-","r","e","s","o","l","u","t","i","o","n">>>> >>

\* TYPE_MAP[key]: the slug, or undefined (keys inherited from Object.prototype,
\* such as "constructor", are outside the inputs of the model)
TypeMapGet(key) ==
    IF \E i \in 1..Len(TYPE_MAP) : TYPE_MAP[i][1] = key
    THEN Str(TYPE_MAP[CHOOSE i \in 1..Len(TYPE_MAP) : TYPE_MAP[i][1] = key][2])
    ELSE Undef

DigitValue(c) == (CHOOSE i \in 1..10 : Digits[i] = c) - 1

RECURSIVE DecimalValue(_)
DecimalValue(chars) ==
    IF chars = <<>> THEN 0
    ELSE 10 * DecimalValue(SubSeq(chars, 1, Len(chars) - 1)) + DigitValue(chars[Len(chars)])

\* Number(v) for the values of the model: a number is itself, undefined is
\* NaN, "" is 0, a string of decimal digits is its value and any other string
\* is NaN (the strings of the model hold no blank-only, signed, fractional,
\* exponent or 0x form, which Number would read as a number too)
Number(v) ==
    CASE v.t = "number" -> v
      [] v.t = "NaN" -> NaN
      [] v.t = "undefined" -> NaN
      [] v.t = "string" ->
            IF v.s = <<>> THEN Num(0)
            ELSE IF \A i \in 1..Len(v.s) : IsDigit(v.s[i]) THEN Num(DecimalValue(v.s))
            ELSE IF Len(v.s) > 1 /\ Head(v.s) = "-" /\ \A i \in 2..Len(v.s) : IsDigit(v.s[i])
            THEN Num(0 - DecimalValue(Tail(v.s)))
            ELSE NaN

RECURSIVE NatToString(_)
NatToString(k) ==
    IF k < 10 THEN <<Digits[k + 1]>>
    ELSE NatToString(k \div 10) \o <<Digits[(k % 10) + 1]>>

\* String(v)
String(v) ==
    CASE v.t = "string" -> v.s
      [] v.t = "number" -> NatToString(v.n)
      [] v.t = "NaN" -> <<"N","a","N">>
      [] v.t = "undefined" -> <<"u","n","d","e","f","i","n","e","d">>

ordinalSuffix_nanAsZero(x) ==
    LET num == IF Number(x).t = "NaN" THEN Num(0) ELSE Number(x)
        mod100 == num.n % 100
        mod10 == num.n % 10
    IN IF mod100 >= 11 /\ mod100 <= 13 THEN String(num) \o <<"t","h">>
       ELSE IF mod10 = 1 THEN String(num) \o <<"s","t">>
       ELSE IF mod10 = 2 THEN String(num) \o <<"n","d">>
       ELSE IF mod10 = 3 THEN String(num) \o <<"r","d">>
       ELSE String(num) \o <<"t","h">>

\* NaN % 100 is NaN and every comparison with NaN is false, so a NaN falls
\* through to the last return: "NaN" + "th"
ordinalSuffix(x) ==
    LET num == Number(x) IN
    IF num.t = "NaN" THEN String(num) \o <<"t","h">>
    ELSE LET mod100 == num.n % 100
             mod10 == num.n % 10
         IN IF mod100 >= 11 /\ mod100 <= 13 THEN String(num) \o <<"t","h">>
            ELSE IF mod10 = 1 THEN String(num) \o <<"s","t">>
            ELSE IF mod10 = 2 THEN String(num) \o <<"n","d">>
            ELSE IF mod10 = 3 THEN String(num) \o <<"r","d">>
            ELSE String(num) \o <<"t","h">>

\* s.replace(/[^0-9]/g, "")
stripNonDigits(chars) == SelectSeq(chars, IsDigit)

HasPrefix(chars, p) == Len(chars) >= Len(p) /\ SubSeq(chars, 1, Len(p)) = p

\* the index of the first character of chars that is in the set cs, or Len + 1
FirstOf(chars, cs) ==
    IF \E i \in 1..Len(chars) : chars[i] \in cs
    THEN CHOOSE i \in 1..Len(chars) : chars[i] \in cs /\ \A j \in 1..(i - 1) : chars[j] \notin cs
    ELSE Len(chars) + 1

HttpsScheme == <<"h","t","t","p","s",":","/","/">>

\* new URL(chars) throws unless chars is an absolute URL: in the model, unless
\* it is https:// followed by a host without blanks
UrlIsValid(chars) ==
    /\ HasPrefix(chars, HttpsScheme)
    /\ Len(chars) > Len(HttpsScheme)
    /\ chars[Len(HttpsScheme) + 1] \notin {"/", "?", "#"}
    /\ \A i \in 1..Len(chars) : chars[i] # " "

\* new URL(chars).pathname: from the first "/" after the host to the query or
\* fragment (the paths of the model hold no "." or ".." segment and no
\* character that the URL parser would percent-encode)
UrlPathname(chars) ==
    LET rest == SubSeq(chars, Len(HttpsScheme) + 1, Len(chars))
        base == SubSeq(rest, 1, FirstOf(rest, {"?", "#"}) - 1)
        slash == FirstOf(base, {"/"})
    IN IF slash > Len(base) THEN <<"/">> ELSE SubSeq(base, slash, Len(base))

RECURSIVE SplitSlash(_)
\* chars.split("/")
SplitSlash(chars) ==
    LET cut == FirstOf(chars, {"/"}) IN
    IF cut > Len(chars) THEN <<chars>>
    ELSE <<SubSeq(chars, 1, cut - 1)>> \o SplitSlash(SubSeq(chars, cut + 1, Len(chars)))

\* u.pathname.split("/").filter(Boolean)
PathParts(chars) == SelectSeq(SplitSlash(UrlPathname(chars)), LAMBDA p : p # <<>>)

\* parts.indexOf("bill"), from 0; -1 when there is none
IndexOfBill(parts) ==
    IF \E i \in 1..Len(parts) : parts[i] = <<"b","i","l","l">>
    THEN (CHOOSE i \in 1..Len(parts) : parts[i] = <<"b","i","l","l">> /\ \A j \in 1..(i - 1) : parts[j] # <<"b","i","l","l">>) - 1
    ELSE -1

CongressRoot == <<"h","t","t","p","s",":","/","/","w","w","w",".","c","o","n","g","r","e","s","s",".","g","o","v","/">>

\* a TypeError thrown by a call, in place of the value returned
TypeError == [t |-> "TypeError", s |-> <<>>, n |-> 0]

\* `https://www.congress.gov/bill/${ordinal}-congress/${slug}/${num}`
BillUrl(ordinal, slug, num) ==
    Concat(<<CongressRoot, <<"b","i","l","l","/">>, ordinal, <<"-","c","o","n","g","r","e","s","s","/">>, slug, <<"/">>, num>>)

\* the Fallback of buildPublicUrl: parse the API URL, inside try {} catch {}
buildPublicUrlFallback(b) ==
    LET arg == String(Or(Or(b.url, b.apiUrl), Str(<<>>))) IN
    IF ~UrlIsValid(arg) THEN Str(CongressRoot)
    ELSE LET parts == PathParts(arg)
             i == IndexOfBill(parts)
         IN IF i >= 0 /\ Len(parts) >= i + 4
            THEN LET c == parts[i + 2]
                     t == toLowerCase(parts[i + 3])
                     n == parts[i + 4]
                     slug == Or(TypeMapGet(t), Str(t \o <<"-","b","i","l","l">>))
                 IN Str(BillUrl(ordinalSuffix(Str(c)), slug.s, n))
            ELSE Str(CongressRoot)

buildPublicUrl_noStrip(b) ==
    LET congress == Or(b.congress, Str(<<>>))
        rawType == Or(b.type, Str(<<>>))
        number == Or(b.number, Str(<<>>))
    IN IF rawType.t # "string" THEN TypeError
       ELSE LET type == Str(toLowerCase(rawType.s))
                slug == TypeMapGet(type.s)
                num == String(number)
            IN IF /\ Truthy(congress) /\ Truthy(type) /\ Truthy(number)
                  /\ Truthy(slug)
                  /\ num # <<>>
               THEN Str(BillUrl(ordinalSuffix(congress), slug.s, num))
               ELSE buildPublicUrlFallback(b)

\* Build a public Congress.gov URL from bill fields; a truthy b.type that
\* is no string has no toLowerCase, and the call throws before the try block
buildPublicUrl(b) ==
    LET congress == Or(b.congress, Str(<<>>))
        rawType == Or(b.type, Str(<<>>))
        number == Or(b.number, Str(<<>>))
    IN IF rawType.t # "string" THEN TypeError
       ELSE LET type == Str(toLowerCase(rawType.s))
                slug == TypeMapGet(type.s)
                num == stripNonDigits(String(number))
            IN IF /\ Truthy(congress) /\ Truthy(type) /\ Truthy(number)
                  /\ Truthy(slug)
                  /\ num # <<>>
               THEN Str(BillUrl(ordinalSuffix(congress), slug.s, num))
               ELSE buildPublicUrlFallback(b)

\* the earlier get-bills: always "th", always the generic <type>-bill slug
toPublicCongressUrl(apiUrl) ==
    LET arg == String(apiUrl) IN
    IF ~UrlIsValid(arg) THEN Str(CongressRoot)
    ELSE LET parts == PathParts(arg)
             i == IndexOfBill(parts)
         IN IF i >= 0 /\ Len(parts) >= i + 4
            THEN LET congress == parts[i + 2]
                     type == parts[i + 3]
                     number == parts[i + 4]
                 IN Str(Concat(<<CongressRoot, <<"b","i","l","l","/">>, congress, <<"t","h","-","c","o","n","g","r","e","s","s","/">>,
                                 toLowerCase(type), <<"-","b","i","l","l","/">>, number>>))
            ELSE Str(CongressRoot)

\* public_url: apiLink ? toPublicCongressUrl(apiLink) : "https://www.congress.gov/"
legacyPublicUrl(b) ==
    LET apiLink == Or(Or(b.url, b.apiUrl), Str(<<>>)) IN
    IF Truthy(apiLink) THEN toPublicCongressUrl(apiLink) ELSE Str(CongressRoot)

\* a result variable before its call has returned
Pending == [t |-> "pending", s |-> <<>>, n |-> 0]

\* bill.congress as the upstream sends it, absent, zero, or as text
CongressValues ==
    {Undef, Num(0), Num(3), Num(101), Num(112), Num(119), Str(<<"1","1","8">>), Str(<<"a","b","c">>)}

\* bill.type: the eight codes of the table in either case, an unknown code,
\* absent, empty, and a number (malformed)
TypeValues ==
    {Undef, Str(<<>>), Num(7), Str(<<"h","r">>), Str(<<"H","R">>), Str(<<"S">>), Str(<<"h","j","r","e","s">>),
     Str(<<"S","J","R","E","S">>), Str(<<"H","C","o","n","R","e","s">>), Str(<<"s","c","o","n","r","e","s">>), Str(<<"h","r","e","s">>), Str(<<"S","R","E","S">>),
     Str(<<"x","y","z">>)}

\* bill.number: with its type prefix, bare, numeric, without a digit, absent
NumberValues ==
    {Undef, Str(<<>>), Num(0), Num(187), Str(<<"H",".","R",".","1","8","7">>), Str(<<"4","2">>), Str(<<"a","b","c">>)}

\* bill.url: API URLs with and without the three segments after "bill", with
\* empty segments, with an unknown type, no URL at all, and a number
UrlValues ==
    {Undef, Num(5),
     Str(<<"h","t","t","p","s",":","/","/","a","p","i",".","c","o","n","g","r","e","s","s",".","g","o","v","/","v","3","/","b","i","l","l","/","1","1","8","/","h","r","/","1","2","3","?","f","o","r","m","a","t","=","j","s","o","n">>),
     Str(<<"h","t","t","p","s",":","/","/","a","p","i",".","c","o","n","g","r","e","s","s",".","g","o","v","/","v","3","/","b","i","l","l","/","1","0","1","/","S","J","R","E","S","/","9">>),
     Str(<<"h","t","t","p","s",":","/","/","a","p","i",".","c","o","n","g","r","e","s","s",".","g","o","v","/","v","3","/","b","i","l","l","/","1","1","9","/","x","y","z","/","5">>),
     Str(<<"h","t","t","p","s",":","/","/","a","p","i",".","c","o","n","g","r","e","s","s",".","g","o","v","/","/","v","3","/","b","i","l","l","/","/","1","1","2","/","s","/","7","7","/","t","e","x","t">>),
     Str(<<"h","t","t","p","s",":","/","/","a","p","i",".","c","o","n","g","r","e","s","s",".","g","o","v","/","v","3","/","b","i","l","l","/","1","1","8","/","h","r">>),
     Str(<<"h","t","t","p","s",":","/","/","a","p","i",".","c","o","n","g","r","e","s","s",".","g","o","v","/","v","3","/","l","a","w","/","1","1","8","/","h","r","/","1","2","3">>),
     Str(<<"h","t","t","p","s",":","/","/","a","p","i",".","c","o","n","g","r","e","s","s",".","g","o","v">>),
     Str(<<"n","o","t"," ","a"," ","u","r","l">>)}

ApiUrlValues == {Undef, Str(<<"h","t","t","p","s",":","/","/","a","p","i",".","c","o","n","g","r","e","s","s",".","g","o","v","/","v","3","/","b","i","l","l","/","1","1","3","/","h","r","e","s","/","2","1">>)}

Bills ==
    [congress : CongressValues, type : TypeValues, number : NumberValues,
     url : UrlValues, apiUrl : ApiUrlValues]

UrlInit ==
    /\ bill \in Bills
    /\ publicUrl = Pending
    /\ legacyUrl = Pending
    /\ reparsedUrl = Pending

UrlIdle ==
    /\ bill = [congress |-> Undef, type |-> Undef, number |-> Undef, url |-> Undef, apiUrl |-> Undef]
    /\ publicUrl = Pending
    /\ legacyUrl = Pending
    /\ reparsedUrl = Pending

\* get-bills (current): const publicUrl = buildPublicUrl(b)
BuildPublicUrl ==
    /\ publicUrl = Pending
    /\ publicUrl' = buildPublicUrl(bill)
    /\ UNCHANGED <<bill, legacyUrl, reparsedUrl>>

\* get-bills (earlier): public_url of the mapped bill
LegacyPublicUrl ==
    /\ legacyUrl = Pending
    /\ legacyUrl' = legacyPublicUrl(bill)
    /\ UNCHANGED <<bill, publicUrl, reparsedUrl>>

\* the derived URL fed back as the url of a bill without primary fields
ReparsePublicUrl ==
    /\ publicUrl.t = "string"
    /\ reparsedUrl = Pending
    /\ reparsedUrl' = buildPublicUrl([congress |-> Undef, type |-> Undef, number |-> Undef,
                                       url |-> publicUrl, apiUrl |-> Undef])
    /\ UNCHANGED <<bill, publicUrl, legacyUrl>>

(***************************************************************************)
(* The copy of ordinalSuffix in bill-detail, and both copies side by side  *)
(***************************************************************************)

ordinalSuffix_lastDigitOnly(x) ==
    LET num == Number(x) IN
    IF num.t = "NaN" THEN String(num) \o <<"t","h">>
    ELSE LET mod10 == num.n % 10
         IN IF mod10 = 1 THEN String(num) \o <<"s","t">>
            ELSE IF mod10 = 2 THEN String(num) \o <<"n","d">>
            ELSE IF mod10 = 3 THEN String(num) \o <<"r","d">>
            ELSE String(num) \o <<"t","h">>

\* function ordinalSuffix(n) of the bill-detail handler
ordinalSuffix_billDetail(x) ==
    LET num == Number(x) IN
    IF num.t = "NaN" THEN String(num) \o <<"t","h">>
    ELSE LET mod100 == num.n % 100
             mod10 == num.n % 10
         IN IF mod100 >= 11 /\ mod100 <= 13 THEN String(num) \o <<"t","h">>
            ELSE IF mod10 = 1 THEN String(num) \o <<"s","t">>
            ELSE IF mod10 = 2 THEN String(num) \o <<"n","d">>
            ELSE IF mod10 = 3 THEN String(num) \o <<"r","d">>
            ELSE String(num) \o <<"t","h">>

\* the largest congress number of the model
MaxCongress == 125

OrdinalInit ==
    /\ ordinalArg \in {Num(k) : k \in 0..MaxCongress}
    /\ listOrdinal = Pending
    /\ detailOrdinal = Pending

OrdinalIdle ==
    /\ ordinalArg = Undef
    /\ listOrdinal = Pending
    /\ detailOrdinal = Pending

\* get-bills: ordinalSuffix(congress)
OrdinalSuffixList ==
    /\ listOrdinal = Pending
    /\ listOrdinal' = Str(ordinalSuffix(ordinalArg))
    /\ UNCHANGED <<ordinalArg, detailOrdinal>>

\* bill-detail: ordinalSuffix(congress)
OrdinalSuffixDetail ==
    /\ detailOrdinal = Pending
    /\ detailOrdinal' = Str(ordinalSuffix_billDetail(ordinalArg))
    /\ UNCHANGED <<ordinalArg, listOrdinal>>
(***************************************************************************)
(* The actions of bill-detail, mapped and sorted                           *)
(***************************************************************************)

\* new Date(chars).getTime() for the dates of the model: a date-only form
\* YYYY-MM-DD is a time that grows with year, month and day (counted here in
\* days of 31-day months); "" and any other text give an Invalid Date, NaN
DateTime(chars) ==
    IF /\ Len(chars) = 10
       /\ chars[5] = "-" /\ chars[8] = "-"
       /\ \A i \in {1, 2, 3, 4, 6, 7, 9, 10} : IsDigit(chars[i])
    THEN Num((DecimalValue(SubSeq(chars, 1, 4)) * 12 + DecimalValue(SubSeq(chars, 6, 7))) * 31
             + DecimalValue(SubSeq(chars, 9, 10)))
    ELSE NaN

\* (a, b) => new Date(b.date) - new Date(a.date): negative, zero, positive
\* (-1, 0, 1) or NaN; Array.prototype.sort reads a NaN as +0
CompareActions(a, b) ==
    LET ta == DateTime(a.date)
        tb == DateTime(b.date)
    IN IF ta.t = "NaN" \/ tb.t = "NaN" THEN 0
       ELSE IF tb.n < ta.n THEN -1
       ELSE IF tb.n > ta.n THEN 1
       ELSE 0

\* a consistent comparison function for the elements of the list
\* (ECMAScript, Array.prototype.sort): = and < are transitive and agree
IsConsistentComparator(list) ==
    \A i, j, k \in 1..Len(list) :
        LET ij == CompareActions(list[i], list[j])
            jk == CompareActions(list[j], list[k])
            ik == CompareActions(list[i], list[k])
        IN /\ CompareActions(list[j], list[i]) = 0 - ij
           /\ (ij = 0 /\ jk = 0) => ik = 0
           /\ (ij = 0 /\ jk < 0) => ik < 0
           /\ (ij < 0 /\ jk = 0) => ik < 0
           /\ (ij < 0 /\ jk < 0) => ik < 0

\* the orders in which sort may leave the list: with a consistent comparator
\* the sorted order, equal elements in their original order (the sort is
\* stable); with an inconsistent one the order is implementation-defined
SortOutcomes(list) ==
    {p \in Permutations(1..Len(list)) :
        IsConsistentComparator(list) =>
            \A i, j \in 1..Len(list) :
                i < j =>
                    LET c == CompareActions(list[p[i]], list[p[j]])
                    IN c < 0 \/ (c = 0 /\ p[i] < p[j])}

\* the number of actions of a bill, at most
MaxActions == 3

\* a.actionDate: absent, no date, and three days
ActionDates ==
    {Undef, Str(<<"T","B","D">>), Str(<<"2","0","2","4","-","0","1","-","0","5">>), Str(<<"2","0","2","4","-","0","3","-","0","1">>), Str(<<"2","0","2","4","-","0","6","-","0","1">>)}

\* an action of the upstream; its text tells the actions of a list apart
RawAction(actionDate, i) == [actionDate |-> actionDate, text |-> Str(<<Digits[i + 1]>>)]

ActionsInit ==
    /\ \E k \in 0..MaxActions :
          \E dates \in [1..k -> ActionDates] :
             rawActions = [i \in 1..k |-> RawAction(dates[i], i)]
    /\ actions = Pending

ActionsIdle ==
    /\ rawActions = <<>>
    /\ actions = Pending

\* rawActions.map(a => ({ date: a.actionDate || "", text: a.text || "" }))
MapActions(list) ==
    [i \in 1..Len(list) |->
        [date |-> Or(list[i].actionDate, Str(<<>>)).s, text |-> Or(list[i].text, Str(<<>>)).s]]

\* const actions = rawActions.map(...).sort((a, b) => new Date(b.date) - new Date(a.date))
SortActions ==
    /\ actions = Pending
    /\ \E p \in SortOutcomes(MapActions(rawActions)) :
          actions' = [t |-> "array", n |-> 0,
                      s |-> [i \in 1..Len(rawActions) |-> MapActions(rawActions)[p[i]]]]
    /\ UNCHANGED rawActions
(***************************************************************************)
(* The urgency rankings of the bill lists: statusPriority (get-bills) and  *)
(* statusPriorityFromStatusText (state-bills)                              *)
(***************************************************************************)

\* Simple urgency ranking for UI sorting; a truthy text that is no string has
\* no toLowerCase, and the call throws
statusPriority(text) ==
    LET v == Or(text, Str(<<>>)) IN
    IF v.t # "string" THEN TypeError
    ELSE LET action == toLowerCase(v.s) IN
      IF includes(action, <<"b","e","c","a","m","e"," ","p","u","b","l","i","c"," ","l","a","w">>) \/ includes(action, <<"s","i","g","n","e","d"," ","b","y"," ","p","r","e","s","i","d","e","n","t">>) THEN Num(10)
      ELSE IF includes(action, <<"p","a","s","s","e","d">>) \/ includes(action, <<"a","g","r","e","e","d"," ","t","o">>) THEN Num(8)
      ELSE IF includes(action, <<"c","l","o","t","u","r","e">>) \/ includes(action, <<"f","l","o","o","r">>) THEN Num(7)
      ELSE IF includes(action, <<"r","e","p","o","r","t","e","d">>) \/ includes(action, <<"o","r","d","e","r","e","d"," ","t","o"," ","b","e"," ","r","e","p","o","r","t","e","d">>) THEN Num(6)
      ELSE IF includes(action, <<"c","o","m","m","i","t","t","e","e">>) \/ includes(action, <<"r","e","f","e","r","r","e","d">>) THEN Num(5)
      ELSE IF includes(action, <<"i","n","t","r","o","d","u","c","e","d">>) THEN Num(3)
      ELSE Num(4)

statusPriorityFromStatusText_lowDefault(statusText) ==
    LET t == toLowerCase(String(Or(statusText, Str(<<>>)))) IN
    IF includes(t, <<"s","i","g","n","e","d">>) \/ includes(t, <<"c","h","a","p","t","e","r","e","d">>) \/ includes(t, <<"e","n","a","c","t","e","d">>) THEN Num(10)
    ELSE IF includes(t, <<"p","a","s","s","e","d">>) \/ includes(t, <<"a","d","o","p","t","e","d">>) THEN Num(8)
    ELSE IF includes(t, <<"o","n"," ","f","l","o","o","r">>) \/ includes(t, <<"t","h","i","r","d"," ","r","e","a","d","i","n","g">>) \/ includes(t, <<"s","e","c","o","n","d"," ","r","e","a","d","i","n","g">>) THEN Num(7)
    ELSE IF includes(t, <<"c","o","m","m","i","t","t","e","e">>) \/ includes(t, <<"h","e","a","r","i","n","g">>) \/ includes(t, <<"r","e","f","e","r","r","e","d">>) THEN Num(5)
    ELSE Num(1)

\* A simple urgency rank for UI sorting (rough heuristic)
statusPriorityFromStatusText(statusText) ==
    LET t == toLowerCase(String(Or(statusText, Str(<<>>)))) IN
    IF includes(t, <<"s","i","g","n","e","d">>) \/ includes(t, <<"c","h","a","p","t","e","r","e","d">>) \/ includes(t, <<"e","n","a","c","t","e","d">>) THEN Num(10)
    ELSE IF includes(t, <<"p","a","s","s","e","d">>) \/ includes(t, <<"a","d","o","p","t","e","d">>) THEN Num(8)
    ELSE IF includes(t, <<"o","n"," ","f","l","o","o","r">>) \/ includes(t, <<"t","h","i","r","d"," ","r","e","a","d","i","n","g">>) \/ includes(t, <<"s","e","c","o","n","d"," ","r","e","a","d","i","n","g">>) THEN Num(7)
    ELSE IF includes(t, <<"c","o","m","m","i","t","t","e","e">>) \/ includes(t, <<"h","e","a","r","i","n","g">>) \/ includes(t, <<"r","e","f","e","r","r","e","d">>) THEN Num(5)
    ELSE Num(3)

\* status texts as LegiScan writes them, and a numeric status code
StatusTexts ==
    {Num(4), Str(<<"C","h","a","p","t","e","r","e","d">>), Str(<<"S","i","g","n","e","d"," ","b","y"," ","G","o","v","e","r","n","o","r">>), Str(<<"A","d","o","p","t","e","d">>),
     Str(<<"O","n"," ","F","l","o","o","r">>), Str(<<"T","h","i","r","d"," ","R","e","a","d","i","n","g">>), Str(<<"S","e","c","o","n","d"," ","R","e","a","d","i","n","g">>),
     Str(<<"D","o"," ","P","a","s","s">>), Str(<<"F","a","i","l","e","d">>)}

PriorityInit ==
    /\ actionText \in ActionTexts \cup StatusTexts
    /\ stage = NoResult
    /\ billPriority = Pending
    /\ statePriority = Pending

PriorityIdle ==
    /\ billPriority = Pending
    /\ statePriority = Pending

\* get-bills: statusPriority: statusPriority(b)
StatusPriority ==
    /\ billPriority = Pending
    /\ billPriority' = statusPriority(actionText)
    /\ UNCHANGED statePriority

\* state-bills: const statusPriority = statusPriorityFromStatusText(statusText)
StatusPriorityFromStatusText ==
    /\ statePriority = Pending
    /\ statePriority' = statusPriorityFromStatusText(actionText)
    /\ UNCHANGED billPriority
(***************************************************************************)
(* Vote tally summariser (city-council, type=votes)                        *)
(***************************************************************************)

\* v.valueName && (v.valueName.toLowerCase().includes(k1) || ...)
LabelHas(valueName, keywords) ==
    /\ Truthy(valueName)
    /\ \E k \in keywords : includes(toLowerCase(valueName.s), k)

IsYes(valueName) == LabelHas(valueName, {<<"a","y","e">>, <<"y","e","s">>, <<"a","f","f","i","r","m","a","t","i","v","e">>})

IsNo(valueName) == LabelHas(valueName, {<<"n","a","y">>, <<"n","o">>})

IsAbsent(valueName) == LabelHas(valueName, {<<"a","b","s","e","n","t">>, <<"e","x","c","u","s","e","d">>})

IsAbstain(valueName) == LabelHas(valueName, {<<"a","b","s","t","a","i","n">>, <<"p","r","e","s","e","n","t">>})

\* voteHistory.filter(pred).length
CountVotes(history, pred(_)) == Len(SelectSeq(history, pred))

\* IEEE 754 doubles, as far as the attendance rate needs them: a positive
\* double is [bits, exp], 53 bits with the most significant first and equal
\* to 1, of value 1.b2...b53 * 2^exp
SignificandBits == 53

\* n bits of the binary fraction r / t (r < t)
RECURSIVE DivisionBits(_, _, _)
DivisionBits(r, t, n) ==
    IF n = 0 THEN <<>>
    ELSE IF 2 * r >= t THEN <<1>> \o DivisionBits(2 * r - t, t, n - 1)
    ELSE <<0>> \o DivisionBits(2 * r, t, n - 1)

\* the remainder they leave
RECURSIVE DivisionRemainder(_, _, _)
DivisionRemainder(r, t, n) ==
    IF n = 0 THEN r
    ELSE IF 2 * r >= t THEN DivisionRemainder(2 * r - t, t, n - 1)
    ELSE DivisionRemainder(2 * r, t, n - 1)

\* bits + 1
RECURSIVE Increment(_)
Increment(bits) ==
    IF bits = <<>> THEN <<1>>
    ELSE IF bits[Len(bits)] = 0 THEN SubSeq(bits, 1, Len(bits) - 1) \o <<1>>
    ELSE Increment(SubSeq(bits, 1, Len(bits) - 1)) \o <<0>>

\* a + b + c for bit strings of one length
RECURSIVE AddAligned(_, _, _)
AddAligned(a, b, c) ==
    IF a = <<>> THEN (IF c = 1 THEN <<1>> ELSE <<>>)
    ELSE LET n == Len(a)
             sum == a[n] + b[n] + c
         IN IF sum >= 2
            THEN AddAligned(SubSeq(a, 1, n - 1), SubSeq(b, 1, n - 1), 1) \o <<sum - 2>>
            ELSE AddAligned(SubSeq(a, 1, n - 1), SubSeq(b, 1, n - 1), 0) \o <<sum>>

Zeros(n) == [i \in 1..n |-> 0]

AddBits(a, b) ==
    LET n == IF Len(a) >= Len(b) THEN Len(a) ELSE Len(b)
    IN AddAligned(Zeros(n - Len(a)) \o a, Zeros(n - Len(b)) \o b, 0)

\* round to nearest, ties to even: the exact value 1.b2...bL * 2^exp (with
\* more below it if sticky) as a double
RoundToDouble(bits, exp, sticky) ==
    LET keep == SubSeq(bits, 1, SignificandBits)
        half == bits[SignificandBits + 1] = 1
        more == sticky \/ \E i \in (SignificandBits + 2)..Len(bits) : bits[i] = 1
        up == half /\ (more \/ keep[SignificandBits] = 1)
        m == IF up THEN Increment(keep) ELSE keep
    IN IF Len(m) > SignificandBits
       THEN [bits |-> SubSeq(m, 1, SignificandBits), exp |-> exp + 1]
       ELSE [bits |-> m, exp |-> exp]

\* the least s with k * 2^s >= t
RECURSIVE Doublings(_, _)
Doublings(k, t) == IF k >= t THEN 0 ELSE 1 + Doublings(2 * k, t)

RECURSIVE TimesTwo(_, _)
TimesTwo(k, s) == IF s = 0 THEN k ELSE TimesTwo(2 * k, s - 1)

\* k / t for integers 0 < k <= t
DoubleDivide(k, t) ==
    LET s == Doublings(k, t)
        r == TimesTwo(k, s) - t
    IN RoundToDouble(<<1>> \o DivisionBits(r, t, SignificandBits), 0 - s,
                     DivisionRemainder(r, t, SignificandBits) # 0)

\* x * 100: 100 = 64 + 32 + 4
DoubleTimes100(x) ==
    LET p == AddBits(AddBits(x.bits \o Zeros(6), x.bits \o Zeros(5)), x.bits \o Zeros(2))
    IN RoundToDouble(p \o <<0>>, x.exp + (Len(p) - SignificandBits), FALSE)

RECURSIVE BitsValue(_)
BitsValue(bits) ==
    IF bits = <<>> THEN 0 ELSE 2 * BitsValue(SubSeq(bits, 1, Len(bits) - 1)) + bits[Len(bits)]

\* Math.round(x) = floor(x + 0.5) for a double 0.5 <= x < 2^52
MathRound(x) ==
    IF x.exp < 0 - 1 THEN 0
    ELSE BitsValue(SubSeq(x.bits, 1, x.exp + 1)) + x.bits[x.exp + 2]

\* Math.round(((summary.total - summary.absent) / summary.total) * 100)
attendanceRate(total, absent) ==
    IF total = absent THEN 0
    ELSE MathRound(DoubleTimes100(DoubleDivide(total - absent, total)))

\* the summary object; attendanceRate is set only if (summary.total > 0)
votesSummary(history) ==
    LET total == Len(history)
        absent == CountVotes(history, IsAbsent)
    IN [total |-> total,
        yes |-> CountVotes(history, IsYes),
        no |-> CountVotes(history, IsNo),
        absent |-> absent,
        abstain |-> CountVotes(history, IsAbstain),
        attendanceRate |-> IF total > 0 THEN Num(attendanceRate(total, absent)) ELSE Undef]

\* the summary variable before the votes have been fetched
NoSummary ==
    [total |-> 0, yes |-> 0, no |-> 0, absent |-> 0, abstain |-> 0, attendanceRate |-> Pending]

\* the number of votes of a person, at most
MaxVotes == 3

\* VoteValueName as Legistar clients configure it, and a vote without a name
VoteValueNames ==
    {Undef, Str(<<"A","y","e">>), Str(<<"N","a","y">>), Str(<<"Y","e","s">>), Str(<<"N","o">>), Str(<<"A","f","f","i","r","m","a","t","i","v","e">>),
     Str(<<"A","b","s","e","n","t">>), Str(<<"E","x","c","u","s","e","d">>), Str(<<"A","b","s","t","a","i","n">>), Str(<<"P","r","e","s","e","n","t">>),
     Str(<<"N","o","t"," ","P","r","e","s","e","n","t">>), Str(<<"R","e","c","u","s","e","d">>)}

\* ten votes: seven "Aye", two "Absent", one "Nay"
TenVotes ==
    [i \in 1..10 |-> IF i <= 7 THEN Str(<<"A","y","e">>) ELSE IF i <= 9 THEN Str(<<"A","b","s","e","n","t">>) ELSE Str(<<"N","a","y">>)]

\* forty votes: twenty-three "Aye", seventeen "Absent"
FortyVotes ==
    [i \in 1..40 |-> IF i <= 23 THEN Str(<<"A","y","e">>) ELSE Str(<<"A","b","s","e","n","t">>)]

\* the vote lists of the model (each vote by its valueName)
VoteHistories ==
    {TenVotes, FortyVotes} \cup UNION { [1..k -> VoteValueNames] : k \in 0..MaxVotes }

VotesInit ==
    /\ voteHistory \in VoteHistories
    /\ summary = NoSummary

VotesIdle ==
    /\ voteHistory = <<>>
    /\ summary = NoSummary

\* Calculate summary stats
SummariseVotes ==
    /\ summary = NoSummary
    /\ summary' = votesSummary(voteHistory)
    /\ UNCHANGED voteHistory

(***************************************************************************)
(* Request handlers: one invocation, from the event to the response        *)
(***************************************************************************)

\* the response variable before the handler has returned
NoResponse == [statusCode |-> 0, headers |-> "none", body |-> [none |-> TRUE]]

Response(status, hdrs, body) == [statusCode |-> status, headers |-> hdrs, body |-> body]

\* headers: { "content-type": "application/json" }
JsonHeaders == "content-type"

\* an outbound fetch ends in a thrown error (the network), or in a response
\* with resp.ok and a body: not JSON at all, or JSON of one of these shapes
Thrown == [kind |-> "throw", ok |-> FALSE, body |-> "none", count |-> 0]

Reply(ok, body, count) == [kind |-> "response", ok |-> ok, body |-> body, count |-> count]

\* the length of a list the upstream returns, at most
MaxItems == 2

\* the bodies an upstream error response carries: HTML, JSON null, a JSON
\* object with an error message
ErrorReplies == {Reply(FALSE, b, 0) : b \in {"notJson", "null", "object"}}

\* the query parameters of an event, each a string or absent
NoQuery ==
    [type |-> Undef, city |-> Undef, client |-> Undef, personId |-> Undef, matterId |-> Undef,
     eventId |-> Undef, state |-> Undef, limit |-> Undef, offset |-> Undef,
     congress |-> Undef, number |-> Undef]

\* process.env: the credentials that are set
NoEnv == [CONGRESS_API_KEY |-> FALSE, LEGISCAN_API_KEY |-> FALSE, ANTHROPIC_API_KEY |-> FALSE]

Event(f, method, e, q) == [fn |-> f, httpMethod |-> method, env |-> e, query |-> q]

\* settled before any lookup has
NoSettled == [n \in {} |-> Thrown]

\* the locals before the handler runs: the replies consumed so far, the try
\* of a chain of queries, the list it holds, the checks of verifyCity, and
\* whether the AI text was kept
NoLocal ==
    [replies |-> <<>>, try |-> 0, list |-> [shape |-> "array", count |-> 0],
     checks |-> <<>>, plainEnglishSummary |-> FALSE]

\* the handler has returned
Done == pc = "done"

\* return { statusCode, headers, body }
Return(r) ==
    /\ pc' = "done"
    /\ response' = r

\* await fetch(...): one outbound request is issued and the handler suspends
Fetch(name, label) ==
    /\ requests' = Append(requests, name)
    /\ pc' = label

(***************************************************************************)
(* get-bills: the four versions of the handler                             *)
(***************************************************************************)

\* part_000 holds the current handler (deriveBillStage) and the one before it
\* (statusPriority); get-bills.js holds the first (no mapping) and the second
\* (toPublicCongressUrl)
GetBillsFns == {"get-bills", "get-bills-priority", "get-bills-raw", "get-bills-public-url"}

\* the bodies of a Congress.gov bill list: { bills: [...] }, { results: [...] },
\* an empty list, an object without a list, null, bills that is no array, and
\* a list with a null item
BillsReplies ==
    {Thrown} \cup ErrorReplies \cup
    {Reply(TRUE, b, 0) : b \in {"notJson", "null", "object", "emptyBills", "billsNotArray"}} \cup
    {Reply(TRUE, b, k) : b \in {"bills", "results", "billsNullItem"}, k \in 1..MaxItems}

GetBillsEvents ==
    {Event(f, "GET", [NoEnv EXCEPT !.CONGRESS_API_KEY = k], NoQuery) :
        f \in GetBillsFns, k \in BOOLEAN}

\* if (!process.env.CONGRESS_API_KEY) return 500; else await fetch(url)
GetBillsStart ==
    /\ pc = "start"
    /\ event.fn \in GetBillsFns
    /\ IF ~event.env.CONGRESS_API_KEY
       THEN /\ Return(Response(500,
                        IF event.fn \in {"get-bills", "get-bills-priority"} THEN JsonHeaders ELSE "none",
                        [error |-> "Missing CONGRESS_API_KEY env var in Netlify."]))
            /\ UNCHANGED requests
       ELSE /\ Fetch("bill", "get-bills:fetch")
            /\ UNCHANGED response
    /\ UNCHANGED <<event, inflight, settled, local>>

\* GetBillsCatch that throws err again: the invocation ends without a response
GetBillsCatch_rethrows(err) == NoResponse

\* catch (err) { return 500 { error: String(err) } }: get-bills.js sends no headers
GetBillsCatch(err) ==
    Response(500,
             IF event.fn \in {"get-bills", "get-bills-priority"} THEN JsonHeaders ELSE "none",
             [error |-> err])

\* const data = await resp.json(); rawBills = data?.bills || data?.results || [];
\* rawBills.map(...); return 200 { bills, source }
getBillsResponse(fn, reply) ==
    IF reply.kind = "throw" THEN GetBillsCatch("TypeError: fetch failed")
    ELSE IF reply.body = "notJson" THEN GetBillsCatch("SyntaxError: Unexpected token")
    ELSE IF reply.body = "billsNotArray"
    THEN IF fn = "get-bills-raw"
         THEN Response(200, JsonHeaders, [bills |-> "object", source |-> "congress.gov"])
         ELSE GetBillsCatch("TypeError: (data?.bills || data?.results || []).map is not a function")
    ELSE IF reply.body = "billsNullItem" /\ fn \in {"get-bills", "get-bills-priority"}
    THEN GetBillsCatch("TypeError: Cannot read properties of null")
    ELSE Response(200, JsonHeaders, [bills |-> reply.count, source |-> "congress.gov"])

\* the fetch settles and the handler runs to its return
GetBillsReply ==
    /\ pc = "get-bills:fetch"
    /\ \E reply \in BillsReplies :
        /\ Return(getBillsResponse(event.fn, reply))
        /\ local' = [local EXCEPT !.replies = Append(@, reply)]
    /\ UNCHANGED <<event, requests, inflight, settled>>

(***************************************************************************)
(* state-bills                                                             *)
(***************************************************************************)

STATE_NAME_TO_ABBR == <<
    <<<<"a","l","a","b","a","m","a">>, <<"A","L">>>>,
    <<<<"a","l","a","s","k","a">>, <<"A","K">>>>,
    <<<<"a","r","i","z","o","n","a">>, <<"A","Z">>>>,
    <<<<"a","r","k","a","n","s","a","s">>, <<"A","R">>>>,
    <<<<"c","a","l","i","f","o","r","n","i","a">>, <<"C","A">>>>,
    <<<<"c","o","l","o","r","a","d","o">>, <<"C","O">>>>,
    <<<<"c","o","n","n","e","c","t","i","c","u","t">>, <<"C","T">>>>,
    <<<<"d","e","l","a","w","a","r","e">>, <<"D","E">>>>,
    <<<<"f","l","o","r","i","d","a">>, <<"F","L">>>>,
    <<<<"g","e","o","r","g","i","a">>, <<"G","A">>>>,
    <<<<"h","a","w","a","i","i">>, <<"H","I">>>>,
    <<<<"i","d","a","h","o">>, <<"I","D">>>>,
    <<<<"i","l","l","i","n","o","i","s">>, <<"I","L">>>>,
    <<<<"i","n","d","i","a","n","a">>, <<"I","N">>>>,
    <<<<"i","o","w","a">>, <<"I","A">>>>,
    <<<<"k","a","n","s","a","s">>, <<"K","S">>>>,
    <<<<"k","e","n","t","u","c","k","y">>, <<"K","Y">>>>,
    <<<<"l","o","u","i","s","i","a","n","a">>, <<"L","A">>>>,
    <<<<"m","a","i","n","e">>, <<"M","E">>>>,
    <<<<"m","a","r","y","l","a","n","d">>, <<"M","D">>>>,
    <<<<"m","a","s","s","a","c","h","u","s","e","t","t","s">>, <<"M","A">>>>,
    <<<<"m","i","c","h","i","g","a","n">>, <<"M","I">>>>,
    <<<<"m","i","n","n","e","s","o","t","a">>, <<"M","N">>>>,
    <<<<"m","i","s","s","i","s","s","i","p","p","i">>, <<"M","S">>>>,
    <<<<"m","i","s","s","o","u","r","i">>, <<"M","O">>>>,
    <<<<"m","o","n","t","a","n","a">>, <<"M","T">>>>,
    <<<<"n","e","b","r","a","s","k","a">>, <<"N","E">>>>,
    <<<<"n","e","v","a","d","a">>, <<"N","V">>>>,
    <<<<"n","e","w"," ","h","a","m","p","s","h","i","r","e">>, <<"N","H">>>>,
    <<<<"n","e","w"," ","j","e","r","s","e","y">>, <<"N","J">>>>,
    <<<<"n","e","w"," ","m","e","x","i","c","o">>, <<"N","M">>>>,
    <<<<"n","e","w"," ","y","o","r","k">>, <<"N","Y">>>>,
    <<<<"n","o","r","t","h"," ","c","a","r","o","l","i","n","a">>, <<"N","C">>>>,
    <<<<"n","o","r","t","h"," ","d","a","k","o","t","a">>, <<"N","D">>>>,
    <<<<"o","h","i","o">>, <<"O","H">>>>,
    <<<<"o","k","l","a","h","o","m","a">>, <<"O","K">>>>,
    <<<<"o","r","e","g","o","n">>, <<"O","R">>>>,
    <<<<"p","e","n","n","s","y","l","v","a","n","i","a">>, <<"P","A">>>>,
    <<<<"r","h","o","d","e"," ","i","s","l","a","n","d">>, <<"R","I">>>>,
    <<<<"s","o","u","t","h"," ","c","a","r","o","l","i","n","a">>, <<"S","C">>>>,
    <<<<"s","o","u","t","h"," ","d","a","k","o","t","a">>, <<"S","D">>>>,
    <<<<"t","e","n","n","e","s","s","e","e">>, <<"T","N">>>>,
    <<<<"t","e","x","a","s">>, <<"T","X">>>>,
    <<<<"u","t","a","h">>, <<"U","T">>>>,
    <<<<"v","e","r","m","o","n","t">>, <<"V","T">>>>,
    <<<<"v","i","r","g","i","n","i","a">>, <<"V","A">>>>,
    <<<<"w","a","s","h","i","n","g","t","o","n">>, <<"W","A">>>>,
    <<<<"w","e","s","t"," ","v","i","r","g","i","n","i","a">>, <<"W","V">>>>,
    <<<<"w","i","s","c","o","n","s","i","n">>, <<"W","I">>>>,
    <<<<"w","y","o","m","i","n","g">>, <<"W","Y">>>>,
    <<<<"d","i","s","t","r","i","c","t"," ","o","f"," ","c","o","l","u","m","b","i","a">>, <<"D","C">>>> >>

\* STATE_NAME_TO_ABBR[key] || ""
StateAbbr(key) ==
    IF \E i \in 1..Len(STATE_NAME_TO_ABBR) : STATE_NAME_TO_ABBR[i][1] = key
    THEN STATE_NAME_TO_ABBR[CHOOSE i \in 1..Len(STATE_NAME_TO_ABBR) : STATE_NAME_TO_ABBR[i][1] = key][2]
    ELSE <<>>

toUpperChar(c) ==
    IF \E i \in 1..26 : LowerChars[i] = c
    THEN UpperChars[CHOOSE i \in 1..26 : LowerChars[i] = c]
    ELSE c

\* String.prototype.toUpperCase
toUpperCase(chars) == [i \in 1..Len(chars) |-> toUpperChar(chars[i])]

RECURSIVE TrimStart(_)
TrimStart(chars) ==
    IF chars # <<>> /\ Head(chars) = " " THEN TrimStart(Tail(chars)) ELSE chars

RECURSIVE TrimEnd(_)
TrimEnd(chars) ==
    IF chars # <<>> /\ chars[Len(chars)] = " " THEN TrimEnd(SubSeq(chars, 1, Len(chars) - 1)) ELSE chars

\* String.prototype.trim (the blank is the only white space of the model)
trim(chars) == TrimEnd(TrimStart(chars))

\* normalizeState: "" for no input, any two characters upper-cased, else the
\* abbreviation of the lower-cased name or ""
normalizeState(input) ==
    LET s == trim(String(Or(input, Str(<<>>)))) IN
    IF s = <<>> THEN <<>>
    ELSE IF Len(s) = 2 THEN toUpperCase(s)
    ELSE StateAbbr(toLowerCase(s))

\* toInt: Number.isFinite(n) && n >= 0 ? Math.floor(n) : dflt (the numbers of
\* the model are integers or NaN, and Math.floor leaves an integer as it is)
toInt(x, dflt) ==
    LET k == Number(x) IN IF k.t = "number" /\ k.n >= 0 THEN k.n ELSE dflt

Min(a, b) == IF a <= b THEN a ELSE b

Max(a, b) == IF a >= b THEN a ELSE b

\* the default of limit
DefaultLimit == 50

\* Math.min(toInt(qs.limit, 50), 200)
LimitCap == 200

\* Array.prototype.slice(start, end) with start and end not negative
slice(list, start, end) == SubSeq(list, Min(start, Len(list)) + 1, Min(end, Len(list)))

\* ml.masterlist of count bills: Object.entries gives the integer keys in
\* ascending order and then "session"; an entry is its key and whether its
\* value is an object
MasterListEntries(count) ==
    [i \in 1..count |-> [key |-> NatToString(i), object |-> TRUE]] \o
    <<[key |-> <<"s","e","s","s","i","o","n">>, object |-> TRUE]>>

\* ([k, v]) => k !== "session" && v && typeof v === "object"
IsBillEntry(entry) == entry.key # <<"s","e","s","s","i","o","n">> /\ entry.object

\* billsRaw, each bill by its bill_id
billsRaw(count) == SelectSeq(MasterListEntries(count), IsBillEntry)

\* the bodies LegiScan answers with: no JSON, null, { status: "ERROR", alert },
\* { status: "OK" } without a masterlist, and { status: "OK", masterlist } of
\* count bills beside the "session" key
LegiScanReplies ==
    {Thrown} \cup
    {Reply(ok, b, 0) : ok \in BOOLEAN, b \in {"notJson", "null", "statusError"}} \cup
    {Reply(TRUE, "okNoMasterlist", 0)} \cup
    {Reply(TRUE, "masterlist", k) : k \in 0..MaxItems}

StateValues ==
    {Undef, Str(<<"A","Z">>), Str(<<"a","z">>), Str(<<" ","A","r","i","z","o","n","a"," ">>), Str(<<"N","E","W"," ","Y","O","R","K">>),
     Str(<<"Z","Z">>), Str(<<"A","t","l","a","n","t","i","s">>), Str(<<" ">>)}

LimitValues == {Undef, Str(<<>>), Str(<<"1">>), Str(<<"0">>), Str(<<"5","0","0">>), Str(<<"a","b","c">>), Str(<<"-","1">>)}

OffsetValues == {Undef, Str(<<"1">>), Str(<<"-","1">>)}

StateBillsEvents ==
    {Event("state-bills", "GET", [NoEnv EXCEPT !.LEGISCAN_API_KEY = k],
           [NoQuery EXCEPT !.state = s, !.limit = l, !.offset = o]) :
        k \in BOOLEAN, s \in StateValues, l \in LimitValues, o \in OffsetValues}

\* StateBillsStart with the state parameter validated before the credential
StateBillsStart_validatesFirst ==
    /\ pc = "start"
    /\ event.fn = "state-bills"
    /\ IF normalizeState(event.query.state) = <<>>
       THEN /\ Return(Response(400, JsonHeaders,
                               [error |-> "Missing/invalid state. Use 'AZ' or 'Arizona'."]))
            /\ UNCHANGED requests
       ELSE IF ~event.env.LEGISCAN_API_KEY
       THEN /\ Return(Response(500, JsonHeaders,
                               [error |-> "Missing LEGISCAN_API_KEY env var in Netlify."]))
            /\ UNCHANGED requests
       ELSE /\ Fetch("getMasterList", "state-bills:fetch")
            /\ UNCHANGED response
    /\ UNCHANGED <<event, inflight, settled, local>>

\* the credential, then the state parameter, then callLegiScan("getMasterList")
StateBillsStart ==
    /\ pc = "start"
    /\ event.fn = "state-bills"
    /\ IF ~event.env.LEGISCAN_API_KEY
       THEN /\ Return(Response(500, JsonHeaders,
                               [error |-> "Missing LEGISCAN_API_KEY env var in Netlify."]))
            /\ UNCHANGED requests
       ELSE IF normalizeState(event.query.state) = <<>>
       THEN /\ Return(Response(400, JsonHeaders,
                               [error |-> "Missing/invalid state. Use 'AZ' or 'Arizona'."]))
            /\ UNCHANGED requests
       ELSE /\ Fetch("getMasterList", "state-bills:fetch")
            /\ UNCHANGED response
    /\ UNCHANGED <<event, inflight, settled, local>>

\* callLegiScan throws unless the body is JSON with status "OK"; then the
\* master list is paginated and returned
stateBillsResponse(query, reply) ==
    IF reply.kind = "throw"
    THEN Response(500, JsonHeaders, [error |-> "TypeError: fetch failed"])
    ELSE IF reply.body = "notJson"
    THEN Response(500, JsonHeaders, [error |-> "SyntaxError: Unexpected token"])
    ELSE IF reply.body \in {"null", "statusError"}
    THEN Response(500, JsonHeaders, [error |-> "Error: LegiScan getMasterList failed"])
    ELSE LET limit == Min(toInt(query.limit, DefaultLimit), LimitCap)
             offset == toInt(query.offset, 0)
             raw == IF reply.body = "masterlist" THEN billsRaw(reply.count) ELSE <<>>
             page == slice(raw, offset, offset + limit)
         IN Response(200, JsonHeaders,
                     [bills |-> Len(page),
                      ids |-> [i \in 1..Len(page) |-> page[i].key],
                      pagination |-> [limit |-> limit, offset |-> offset,
                                      returned |-> Len(page), total_estimate |-> Len(raw)],
                      state |-> normalizeState(query.state),
                      source |-> "legiscan"])

StateBillsReply ==
    /\ pc = "state-bills:fetch"
    /\ \E reply \in LegiScanReplies :
        /\ Return(stateBillsResponse(event.query, reply))
        /\ local' = [local EXCEPT !.replies = Append(@, reply)]
    /\ UNCHANGED <<event, requests, inflight, settled>>

\* the placeholder state-bills of part_001: no credential, no request
StateBillsStubEvents ==
    {Event("state-bills-stub", "GET", NoEnv, [NoQuery EXCEPT !.state = s]) :
        s \in {Undef, Str(<<"A","Z">>)}}

StateBillsStub ==
    /\ pc = "start"
    /\ event.fn = "state-bills-stub"
    /\ Return(Response(200, JsonHeaders, [bills |-> 0, note |-> "State bills are not wired yet"]))
    /\ UNCHANGED <<event, requests, inflight, settled, local>>

(***************************************************************************)
(* bill-detail                                                             *)
(***************************************************************************)

\* part_001 holds the handler with the plain-English summary and the separate
\* committees fetch, part_002 the one before it
BillDetailFns == {"bill-detail", "bill-detail-plain"}

\* the four lookups of Promise.all, in the order they are issued
BillDetailLookups == <<"detail", "actions", "summaries", "cosponsors">>

\* settled with one more lookup
Settle(name, reply) ==
    [n \in (DOMAIN settled) \cup {name} |-> IF n = name THEN reply ELSE settled[n]]

\* congressFetch rejects when fetch throws or when resp.json() does; a response
\* that is not ok resolves to null
CongressFetchRejects(reply) ==
    \/ reply.kind = "throw"
    \/ reply.ok /\ reply.body = "notJson"

\* the value congressFetch resolves to is null: not ok, or the JSON null
CongressFetchNull(reply) == ~reply.ok \/ reply.body = "null"

\* the bodies of /bill/{congress}/{type}/{number}: { bill } without a title,
\* with a title, and with committees as an array, as { url, count }, as { item }
DetailReplies ==
    {Thrown} \cup ErrorReplies \cup
    {Reply(TRUE, b, 0) : b \in {"notJson", "object", "billNoTitle", "bill",
                                "billCommitteesArray", "billCommitteesUrl", "billCommitteesItem"}}

\* the bodies of /actions, /summaries, /cosponsors and of the committees URL:
\* an error response, no JSON, or a list of count entries under its key
SubListReplies ==
    {Thrown, Reply(FALSE, "object", 0), Reply(TRUE, "notJson", 0)} \cup
    {Reply(TRUE, "list", k) : k \in 0..MaxItems}

LookupReplies(name) == IF name = "detail" THEN DetailReplies ELSE SubListReplies

\* Array.isArray(data?.key) ? data.key : [] (part_002: data?.key || [])
ListCount(reply) == IF ~CongressFetchNull(reply) /\ reply.body = "list" THEN reply.count ELSE 0

\* const bill = billData?.bill || {}
BillHasTitle(reply) ==
    /\ ~CongressFetchNull(reply)
    /\ reply.body \in {"bill", "billCommitteesArray", "billCommitteesUrl", "billCommitteesItem"}

\* bill.committees: "array", "url", "item" or "none"
BillCommittees(reply) ==
    IF CongressFetchNull(reply) THEN "none"
    ELSE CASE reply.body = "billCommitteesArray" -> "array"
           [] reply.body = "billCommitteesUrl" -> "url"
           [] reply.body = "billCommitteesItem" -> "item"
           [] OTHER -> "none"

BillDetailTypes == {Undef, Str(<<"h","r">>), Str(<<"S","J","R","E","S">>), Str(<<"x","y","z">>)}

BillDetailEvents ==
    {Event(f, "GET", [NoEnv EXCEPT !.CONGRESS_API_KEY = k, !.ANTHROPIC_API_KEY = a],
           [NoQuery EXCEPT !.type = t, !.number = n, !.congress = c]) :
        f \in BillDetailFns, k \in BOOLEAN, a \in BOOLEAN, t \in BillDetailTypes,
        n \in {Undef, Str(<<"1","8","7">>)}, c \in {Undef, Str(<<"1","0","1">>)}}

\* the credential, then type and number, then the four lookups at once
BillDetailStart ==
    /\ pc = "start"
    /\ event.fn \in BillDetailFns
    /\ IF ~event.env.CONGRESS_API_KEY
       THEN /\ Return(Response(500, JsonHeaders, [error |-> "Missing CONGRESS_API_KEY"]))
            /\ UNCHANGED <<requests, inflight>>
       ELSE IF ~Truthy(event.query.type) \/ ~Truthy(event.query.number)
       THEN /\ Return(Response(400, JsonHeaders, [error |-> "Missing type or number."]))
            /\ UNCHANGED <<requests, inflight>>
       ELSE /\ requests' = requests \o BillDetailLookups
            /\ inflight' = {BillDetailLookups[i] : i \in 1..Len(BillDetailLookups)}
            /\ pc' = "bill-detail:all"
            /\ UNCHANGED response
    /\ UNCHANGED <<event, settled, local>>

\* Build public URL
billDetailPublicUrl(query) ==
    LET congress == Or(query.congress, Str(<<"1","1","9">>))
        type == toLowerCase(Or(query.type, Str(<<>>)).s)
        slug == Or(TypeMapGet(type), Str(type \o <<"-","b","i","l","l">>))
        num == stripNonDigits(String(Or(query.number, Str(<<>>))))
    IN BillUrl(ordinalSuffix_billDetail(congress), slug.s, num)

\* the 200 response, with the number of committees and whether the AI text was kept
billDetailResponse(query, s, committees, plain) ==
    Response(200, JsonHeaders,
             [title |-> BillHasTitle(s["detail"]),
              cosponsorsCount |-> ListCount(s["cosponsors"]),
              actions |-> ListCount(s["actions"]),
              summaries |-> ListCount(s["summaries"]),
              summary |-> ListCount(s["summaries"]) > 0,
              plainEnglishSummary |-> plain,
              committees |-> committees,
              publicUrl |-> billDetailPublicUrl(query)])

\* the committees of the bill detail: part_001 fetches { url } separately,
\* part_002 maps whatever is there and throws on an object that is no array
BillDetailCommittees(s, plain) ==
    LET kind == BillCommittees(s["detail"]) IN
    IF event.fn = "bill-detail" /\ kind = "url"
    THEN /\ Fetch("committees", "bill-detail:committees")
         /\ local' = [local EXCEPT !.plainEnglishSummary = plain]
         /\ UNCHANGED response
    ELSE IF event.fn = "bill-detail-plain" /\ kind = "url"
    THEN /\ Return(Response(500, JsonHeaders,
                     [error |-> "TypeError: (bill.committees?.item || bill.committees || []).map is not a function"]))
         /\ local' = [local EXCEPT !.plainEnglishSummary = plain]
         /\ UNCHANGED requests
    ELSE /\ Return(billDetailResponse(event.query, s, IF kind = "none" THEN 0 ELSE 1, plain))
         /\ local' = [local EXCEPT !.plainEnglishSummary = plain]
         /\ UNCHANGED requests

\* after Promise.all: the AI request if (anthropicKey && (bestSummary || bill.title))
BillDetailAfterAll(s) ==
    IF /\ event.fn = "bill-detail"
       /\ event.env.ANTHROPIC_API_KEY
       /\ (ListCount(s["summaries"]) > 0 \/ BillHasTitle(s["detail"]))
    THEN /\ Fetch("anthropic:messages", "bill-detail:ai")
         /\ UNCHANGED <<response, local>>
    ELSE BillDetailCommittees(s, FALSE)

\* one of the four lookups settles.  While the handler awaits Promise.all a
\* rejection ends the wait at once (catch: 500) and the last fulfilment lets
\* the handler go on; a lookup that settles later changes nothing
BillDetailSettle ==
    /\ event.fn \in BillDetailFns
    /\ \E name \in inflight : \E reply \in LookupReplies(name) :
        /\ inflight' = inflight \ {name}
        /\ settled' = Settle(name, reply)
        /\ IF pc # "bill-detail:all"
           THEN UNCHANGED <<pc, response, requests, local>>
           ELSE IF CongressFetchRejects(reply)
           THEN /\ Return(Response(500, JsonHeaders,
                            [error |-> IF reply.kind = "throw" THEN "TypeError: fetch failed"
                                       ELSE "SyntaxError: Unexpected token"]))
                /\ UNCHANGED <<requests, local>>
           ELSE IF inflight = {name}
           THEN BillDetailAfterAll(Settle(name, reply))
           ELSE UNCHANGED <<pc, response, requests, local>>
    /\ UNCHANGED event

\* the bodies of the AI response: a text of more than 20 characters, a
\* shorter one, no JSON
AiReplies ==
    {Thrown} \cup ErrorReplies \cup {Reply(TRUE, b, 0) : b \in {"notJson", "text", "shortText"}}

\* the AI request settles: its failure is caught and leaves the summary empty
BillDetailAiReply ==
    /\ pc = "bill-detail:ai"
    /\ \E reply \in AiReplies :
        BillDetailCommittees(settled, reply.kind = "response" /\ reply.ok /\ reply.body = "text")
    /\ UNCHANGED <<event, inflight, settled>>

\* the committees fetch settles: a failure is caught and leaves the list empty
BillDetailCommitteesReply ==
    /\ pc = "bill-detail:committees"
    /\ \E reply \in SubListReplies :
        Return(billDetailResponse(event.query, settled,
                                  IF CongressFetchRejects(reply) THEN 0 ELSE ListCount(reply),
                                  local.plainEnglishSummary))
    /\ UNCHANGED <<event, requests, inflight, settled, local>>

(***************************************************************************)
(* city-council                                                            *)
(***************************************************************************)

\* CITY DATABASE: name, Legistar client, verified
CITY_DATABASE == <<
    <<<<"P","h","o","e","n","i","x",","," ","A","Z">>, <<"p","h","o","e","n","i","x">>, TRUE>>,
    <<<<"M","e","s","a",","," ","A","Z">>, <<"m","e","s","a">>, TRUE>>,
    <<<<"A","p","a","c","h","e"," ","J","u","n","c","t","i","o","n",","," ","A","Z">>, <<"a","p","a","c","h","e","j","u","n","c","t","i","o","n">>, TRUE>>,
    <<<<"G","o","o","d","y","e","a","r",","," ","A","Z">>, <<"g","o","o","d","y","e","a","r">>, TRUE>>,
    <<<<"L","a","k","e"," ","H","a","v","a","s","u"," ","C","i","t","y",","," ","A","Z">>, <<"l","a","k","e","h","a","v","a","s","u","c","i","t","y">>, TRUE>>,
    <<<<"M","a","r","i","c","o","p","a",","," ","A","Z">>, <<"m","a","r","i","c","o","p","a">>, TRUE>>,
    <<<<"Y","u","m","a",","," ","A","Z">>, <<"y","u","m","a","-","a","z">>, TRUE>> >>

\* CITY_DATABASE[city] is there (keys inherited from Object.prototype are
\* outside the inputs of the model)
CityKnown(city) == \E i \in 1..Len(CITY_DATABASE) : CITY_DATABASE[i][1] = city

CityInfo(city) == CITY_DATABASE[CHOOSE i \in 1..Len(CITY_DATABASE) : CITY_DATABASE[i][1] = city]

VerifiedCities == {i \in 1..Len(CITY_DATABASE) : CITY_DATABASE[i][3]}

\* 'Access-Control-Allow-Origin': '*', ...
CorsHeaders == "cors"

\* legistarFetch throws when fetch does, when the response is not ok and when
\* its text is no JSON; otherwise it returns the parsed value: an array of
\* count records, an object that is no array, or null
LegistarReplies ==
    {Thrown} \cup ErrorReplies \cup
    {Reply(TRUE, b, 0) : b \in {"notJson", "object", "null"}} \cup
    {Reply(TRUE, "array", k) : k \in 0..MaxItems}

LegistarThrows(reply) == reply.kind = "throw" \/ ~reply.ok \/ reply.body = "notJson"

\* error.message of what legistarFetch throws
LegistarMessage(reply) ==
    IF reply.kind = "throw" THEN "fetch failed"
    ELSE IF ~reply.ok THEN "Legistar API error"
    ELSE "Legistar API returned non-JSON"

\* a JavaScript value a list variable holds: an array of count records, an
\* object that is no array, or null
List(shape, count) == [shape |-> shape, count |-> count]

EmptyArray == List("array", 0)

ListOf(reply) == List(reply.body, reply.count)

\* IsEmpty that takes every list for empty
IsEmpty_always(x) == x.shape \in {"null", "array", "object"}

\* !x || x.length === 0
IsEmpty(x) == x.shape = "null" \/ (x.shape = "array" /\ x.count = 0)

\* CityCouncilCatch without the headers
CityCouncilCatch_noHeaders(message) ==
    Response(500, "none",
             [error |-> "Failed to fetch city council data", message |-> message])

\* catch (error) { return 500 { error, message: error.message, ... } }
CityCouncilCatch(message) ==
    Response(500, CorsHeaders,
             [error |-> "Failed to fetch city council data", message |-> message])

\* x.map(...) of a value that is no array throws a TypeError
MapThrows(x) == x.shape # "array"

\* the values of type other than members and persons (MembersEvents)
CouncilTypes ==
    {Undef, Str(<<"c","i","t","i","e","s">>), Str(<<"v","e","r","i","f","y">>), Str(<<"l","e","g","i","s","l","a","t","i","o","n">>), Str(<<"m","a","t","t","e","r","s">>), Str(<<"m","e","e","t","i","n","g","s">>), Str(<<"e","v","e","n","t","s">>),
     Str(<<"v","o","t","e","s">>), Str(<<"m","a","t","t","e","r","-","d","e","t","a","i","l">>), Str(<<"a","g","e","n","d","a">>), Str(<<"b","u","d","g","e","t">>)}

CouncilCities == {Undef, Str(<<"P","h","o","e","n","i","x",","," ","A","Z">>), Str(<<"G","l","e","n","d","a","l","e",","," ","A","Z">>)}

\* personId, matterId, eventId and client: one value stands for all four
CouncilIds == {Undef, Str(<<"1","2","3">>)}

\* every method, type, city and id, and members without a verified city
\* (MembersEvents has members with Phoenix)
CityCouncilEvents ==
    {Event("city-council", m, NoEnv,
           [NoQuery EXCEPT !.type = t, !.city = c, !.client = i, !.personId = i,
                           !.matterId = i, !.eventId = i]) :
        m \in {"GET", "OPTIONS"}, t \in CouncilTypes, c \in CouncilCities, i \in CouncilIds} \cup
    {Event("city-council", "GET", NoEnv, [NoQuery EXCEPT !.type = t, !.city = c]) :
        t \in {Str(<<"m","e","m","b","e","r","s">>), Str(<<"p","e","r","s","o","n","s">>)}, c \in CouncilCities \ {Str(<<"P","h","o","e","n","i","x",","," ","A","Z">>)}}

\* IsType with a missing type taken for a match
IsType_orMissing(names) ==
    event.query.type = Undef \/ \E n \in names : event.query.type = Str(n)

IsType(names) == \E n \in names : event.query.type = Str(n)

\* the three lookups of matter-detail, in the order they are issued
MatterDetailLookups == <<"Matters/id", "Matters/id/Sponsors", "Matters/id/Histories">>

\* the handler up to its first await or its return: pre-flight, cities,
\* verify, the city, and the type with its required parameter
CityCouncilStart ==
    /\ pc = "start"
    /\ event.fn = "city-council"
    /\ LET q == event.query
           respond(r) == Return(r) /\ UNCHANGED <<requests, inflight, local>>
           fetch(name, label) == Fetch(name, label) /\ UNCHANGED <<response, inflight, local>>
       IN
       IF event.httpMethod = "OPTIONS" THEN respond(Response(200, CorsHeaders, [empty |-> TRUE]))
       ELSE IF IsType({<<"c","i","t","i","e","s">>})
       THEN respond(Response(200, CorsHeaders,
                             [cities |-> Cardinality(VerifiedCities),
                              totalCities |-> Cardinality(VerifiedCities)]))
       ELSE IF IsType({<<"v","e","r","i","f","y">>})
       THEN IF ~Truthy(q.client)
            THEN respond(Response(400, CorsHeaders,
                                  [error |-> "client parameter required for verification"]))
            ELSE fetch("Persons", "verify:persons")
       ELSE IF ~Truthy(q.city)
       THEN respond(Response(400, CorsHeaders, [error |-> "City parameter required."]))
       ELSE IF ~CityKnown(String(q.city))
       THEN respond(Response(404, CorsHeaders, [error |-> "is not available yet."]))
       ELSE IF ~CityInfo(String(q.city))[3]
       THEN respond(Response(404, CorsHeaders,
                             [error |-> "has a Legistar portal but no active data yet."]))
       ELSE IF IsType({<<"p","e","r","s","o","n","s">>, <<"m","e","m","b","e","r","s">>}) THEN fetch("Bodies", "members:bodies")
       ELSE IF IsType({<<"m","a","t","t","e","r","s">>, <<"l","e","g","i","s","l","a","t","i","o","n">>})
       THEN /\ Fetch("Matters", "legislation:try")
            /\ local' = [local EXCEPT !.try = 1]
            /\ UNCHANGED <<response, inflight>>
       ELSE IF IsType({<<"e","v","e","n","t","s">>, <<"m","e","e","t","i","n","g","s">>})
       THEN /\ Fetch("Events", "meetings:try")
            /\ local' = [local EXCEPT !.try = 1]
            /\ UNCHANGED <<response, inflight>>
       ELSE IF IsType({<<"v","o","t","e","s">>})
       THEN IF ~Truthy(q.personId)
            THEN respond(Response(400, CorsHeaders, [error |-> "personId parameter required"]))
            ELSE fetch("Persons/id/Votes", "votes:fetch")
       ELSE IF IsType({<<"m","a","t","t","e","r","-","d","e","t","a","i","l">>})
       THEN IF ~Truthy(q.matterId)
            THEN respond(Response(400, CorsHeaders, [error |-> "matterId parameter required"]))
            ELSE /\ requests' = requests \o MatterDetailLookups
                 /\ inflight' = {MatterDetailLookups[i] : i \in 1..Len(MatterDetailLookups)}
                 /\ pc' = "matter-detail:all"
                 /\ UNCHANGED <<response, local>>
       ELSE IF IsType({<<"a","g","e","n","d","a">>})
       THEN IF ~Truthy(q.eventId)
            THEN respond(Response(400, CorsHeaders, [error |-> "eventId parameter required"]))
            ELSE fetch("Events/id/EventItems", "agenda:fetch")
       ELSE respond(Response(400, CorsHeaders,
                             [error |-> "Invalid type parameter",
                              validTypes |-> <<"cities", "verify", "members", "legislation",
                                               "meetings", "votes", "matter-detail", "agenda">>]))
    /\ UNCHANGED <<event, settled>>

\* legislation and meetings: Try 1, Try 2, Try 3.  A query that throws is
\* caught and leaves the list as it was (Try 3 sets it to []); the next query
\* is issued if (!list || list.length === 0); then list.map(...) and 200
ChainReply ==
    /\ pc \in {"legislation:try", "meetings:try"}
    /\ \E reply \in LegistarReplies :
        LET list == IF LegistarThrows(reply)
                    THEN (IF local.try = 3 THEN EmptyArray ELSE local.list)
                    ELSE ListOf(reply)
            kind == IF pc = "legislation:try" THEN "legislation" ELSE "meetings"
        IN /\ local' = [local EXCEPT !.replies = Append(@, reply), !.list = list,
                                      !.try = IF local.try < 3 /\ IsEmpty(list) THEN @ + 1 ELSE @]
           /\ IF local.try < 3 /\ IsEmpty(list)
              THEN /\ Fetch(IF kind = "legislation" THEN "Matters" ELSE "Events", pc)
                   /\ UNCHANGED response
              ELSE /\ Return(IF MapThrows(list)
                             THEN CityCouncilCatch("TypeError: map is not a function")
                             ELSE Response(200, CorsHeaders, [type |-> kind, items |-> list.count]))
                   /\ UNCHANGED requests
    /\ UNCHANGED <<event, inflight, settled>>

\* votes and agenda: one query, not caught; then list.map(...) and 200
SingleReply ==
    /\ pc \in {"votes:fetch", "agenda:fetch"}
    /\ \E reply \in LegistarReplies :
        /\ local' = [local EXCEPT !.replies = Append(@, reply)]
        /\ Return(IF LegistarThrows(reply) THEN CityCouncilCatch(LegistarMessage(reply))
                  ELSE IF MapThrows(ListOf(reply))
                  THEN CityCouncilCatch("TypeError: map is not a function")
                  ELSE Response(200, CorsHeaders,
                                [type |-> IF pc = "votes:fetch" THEN "votes" ELSE "agenda",
                                 items |-> reply.count]))
    /\ UNCHANGED <<event, requests, inflight, settled>>

\* the value a lookup of matter-detail resolves to: Sponsors and Histories
\* have .catch(() => [])
MatterDetailValue(name, reply) ==
    IF LegistarThrows(reply) THEN EmptyArray ELSE ListOf(reply)

\* the response once the three lookups have resolved: matter.MatterId of null
\* and sponsors.map / histories.map of no array throw
matterDetailResponse(s) ==
    IF \/ MatterDetailValue("Matters/id", s["Matters/id"]).shape = "null"
       \/ MapThrows(MatterDetailValue("Matters/id/Sponsors", s["Matters/id/Sponsors"]))
       \/ MapThrows(MatterDetailValue("Matters/id/Histories", s["Matters/id/Histories"]))
    THEN CityCouncilCatch("TypeError: Cannot read properties")
    ELSE Response(200, CorsHeaders,
                  [type |-> "matter-detail",
                   sponsors |-> MatterDetailValue("Matters/id/Sponsors", s["Matters/id/Sponsors"]).count,
                   history |-> MatterDetailValue("Matters/id/Histories", s["Matters/id/Histories"]).count])

\* one of the three lookups settles.  While the handler awaits Promise.all the
\* rejection of the matter ends the wait at once (catch: 500) and the last
\* fulfilment lets the handler go on; a lookup that settles later changes nothing
MatterDetailSettle ==
    /\ event.fn = "city-council"
    /\ \E name \in inflight : \E reply \in LegistarReplies :
        /\ inflight' = inflight \ {name}
        /\ settled' = Settle(name, reply)
        /\ IF pc # "matter-detail:all"
           THEN UNCHANGED <<pc, response>>
           ELSE IF name = "Matters/id" /\ LegistarThrows(reply)
           THEN Return(CityCouncilCatch(LegistarMessage(reply)))
           ELSE IF inflight = {name}
           THEN Return(matterDetailResponse(Settle(name, reply)))
           ELSE UNCHANGED <<pc, response>>
    /\ UNCHANGED <<event, requests, local>>

\* results.overallPass with the events check counted as well
overallPass_anyCheck(checks) == \E i \in 1..Len(checks) : checks[i].pass

\* Overall: must have at least persons OR legislation with data
overallPass(checks) == checks[1].pass \/ checks[2].pass

\* the counts a check can record for a reply: 0 when the query throws or the
\* JSON is no array (filter or slice throws, or length is undefined), the
\* length of the array otherwise; of the persons only those with the active
\* flag and a name without "System" or "View Only" are counted
CheckCounts(label, reply) ==
    IF LegistarThrows(reply) \/ reply.body # "array" THEN {0}
    ELSE IF label = "verify:persons" THEN 0..reply.count
    ELSE {reply.count}

\* verifyCity: the three checks in order, each in its own try/catch; a check
\* passes when its count is positive
VerifyReply ==
    /\ pc \in {"verify:persons", "verify:matters", "verify:events"}
    /\ \E reply \in LegistarReplies : \E count \in CheckCounts(pc, reply) :
        LET checks == Append(local.checks, [pass |-> count > 0, count |-> count])
        IN /\ local' = [local EXCEPT !.replies = Append(@, reply), !.checks = checks]
           /\ IF pc = "verify:persons"
              THEN Fetch("Matters", "verify:matters") /\ UNCHANGED response
              ELSE IF pc = "verify:matters"
              THEN Fetch("Events", "verify:events") /\ UNCHANGED response
              ELSE /\ Return(Response(200, CorsHeaders,
                                      [type |-> "verification-report",
                                       checks |-> checks,
                                       overallPass |-> overallPass(checks)]))
                   /\ UNCHANGED requests
    /\ UNCHANGED <<event, inflight, settled>>

(***************************************************************************)
(* city-council, type=members: the roster                                  *)
(***************************************************************************)

\* const now = new Date(), as a number of days
now == 5

\* OfficeRecordEndDate: null, a day in the past, a day in the future
NoDate == 0

EndDates == {NoDate, now - 2, now + 3}

\* an OfficeRecordEndDate that new Date() cannot parse (an Invalid Date)
BadDate == -1

\* new Date(d) > now: false for the request time itself, for an earlier date
\* and for an Invalid Date (NaN > now)
IsAfterNow(d) == d # BadDate /\ d > now

\* the persons the upstream knows, at most
MaxPersons == 3

\* the persons that may hold an office record, at most
MaxOffices == 2

PersonNames == <<<<"A","n","n"," ","L","e","e">>, <<"B","o"," ","D","i","a","z">>, <<"C","i","t","y"," ","C","l","e","r","k">>, <<"C","y"," ","Y","o","u","n","g">>, <<"D","i"," ","W","u">>,
                 <<>>, <<"T","e","s","t"," ","A","D","M","I","N">>>>

Person(id, flag) == [PersonId |-> id, PersonFullName |-> PersonNames[id], PersonActiveFlag |-> flag]

Body(id, name, flag) == [BodyId |-> id, BodyName |-> name, BodyActiveFlag |-> flag]

OfficeRecord(person, body, end) ==
    [OfficeRecordPersonId |-> person, OfficeRecordBodyId |-> body, OfficeRecordEndDate |-> end,
     OfficeRecordTitle |-> "Council Member", OfficeRecordBodyName |-> "City Council",
     OfficeRecordStartDate |-> 1]

\* the titles of the office records of a list, by position
OfficeTitles == <<"Mayor", "Vice Mayor", "Council Member", "Member Pro Tem">>

\* the i-th office record of a list: its title and start date tell it apart
TitledRecord(person, body, end, i) ==
    [OfficeRecord(person, body, end) EXCEPT !.OfficeRecordTitle = OfficeTitles[i],
                                            !.OfficeRecordBodyName = IF body = 1 THEN "City Council" ELSE "Planning Commission",
                                            !.OfficeRecordStartDate = i]

\* what Bodies may hold: a primary council next to a commission, an inactive
\* council next to a mayor's office, an advisory committee only, nothing
BodiesValues ==
    { <<Body(1, <<"C","i","t","y"," ","C","o","u","n","c","i","l">>, 1), Body(2, <<"P","l","a","n","n","i","n","g"," ","C","o","m","m","i","s","s","i","o","n">>, 1)>>,
      <<Body(1, <<"C","i","t","y"," ","C","o","u","n","c","i","l">>, 0), Body(2, <<"O","f","f","i","c","e"," ","o","f"," ","t","h","e"," ","M","a","y","o","r">>, 1)>>,
      <<Body(1, <<"C","o","u","n","c","i","l"," ","A","d","v","i","s","o","r","y"," ","C","o","m","m","i","t","t","e","e">>, 1)>>,
      <<>> }

RECURSIVE Flatten(_)
Flatten(seqs) == IF seqs = <<>> THEN <<>> ELSE Head(seqs) \o Flatten(Tail(seqs))

\* what OfficeRecords may hold: for each of the first persons no record or
\* one record, in body 1 or 2, with an end date
OfficeRecordsOf(f) ==
    Flatten([i \in 1..MaxOffices |->
        IF f[i] = <<>> THEN <<>> ELSE <<[f[i][1] EXCEPT !.OfficeRecordPersonId = i]>>])

\* the choice of a record, or of none, for each of the first persons
OfficeRecordsChoices ==
    [1..MaxOffices -> {<<>>} \cup {<<OfficeRecord(0, b, e)>> : b \in 1..2, e \in EndDates}]

\* what Persons may hold: the first persons, each active or not
PersonsValues ==
    { [i \in 1..k |-> Person(i, flags[i])] : k \in {0, MaxPersons}, flags \in [1..MaxPersons -> {0, 1}] }

Upstream(bodies, officeRecords, persons) ==
    [bodies |-> bodies, officeRecords |-> officeRecords, persons |-> persons]

NoUpstream == Upstream(<<>>, <<>>, <<>>)

UpstreamValues ==
    { Upstream(b, OfficeRecordsOf(f), p) :
        b \in BodiesValues, f \in OfficeRecordsChoices, p \in PersonsValues }

\* the number of office records of a roster, at most
MaxRecords == 2

\* bodies next to which the primary and the broad keywords both match, and
\* with an inactive primary body, a broad body and an excluded one
RosterBodies ==
    BodiesValues \cup
    { <<Body(1, <<"O","f","f","i","c","e"," ","o","f"," ","t","h","e"," ","M","a","y","o","r">>, 1), Body(2, <<"C","i","t","y"," ","C","o","u","n","c","i","l">>, 1)>>,
      <<Body(1, <<"T","O","W","N"," ","C","O","U","N","C","I","L">>, 0), Body(2, <<"B","o","a","r","d"," ","o","f"," ","A","l","d","e","r","m","e","n">>, 1),
        Body(3, <<"C","o","u","n","c","i","l"," ","T","a","s","k"," ","F","o","r","c","e">>, 1)>> }

\* the holders of an office record: person 1 in body 1 or 2, person 2 in body 1
RosterHolders == {<<1, 1>>, <<1, 2>>, <<2, 1>>}

\* lists of office records of persons 1 and 2 in bodies 1 and 2, and a single
\* record for each kind of end date
RosterRecords ==
    { [i \in 1..Len(f) |-> TitledRecord(f[i][1][1], f[i][1][2], f[i][2], i)] :
        f \in UNION { [1..k -> RosterHolders \X EndDates] : k \in 0..MaxRecords } } \cup
    { <<TitledRecord(1, 1, e, 1)>> : e \in {now, BadDate} }

\* lists of persons: none; a member, an inactive one and a clerk; a person
\* without a name next to an administrator account
RosterPersons ==
    { <<>>,
      <<Person(1, 1), Person(2, 0), Person(3, 1)>>,
      <<Person(6, 1), Person(7, 1), Person(2, 1), Person(4, 0)>> }

\* the rosters of the model: the office records vary with and without
\* bodies, the bodies with one record in each body, the persons with at
\* most one record
RosterValues ==
    { Upstream(b, r, <<Person(1, 1), Person(2, 0), Person(3, 1)>>) :
        b \in {<<Body(1, <<"C","i","t","y"," ","C","o","u","n","c","i","l">>, 1), Body(2, <<"P","l","a","n","n","i","n","g"," ","C","o","m","m","i","s","s","i","o","n">>, 1)>>, <<>>},
        r \in RosterRecords } \cup
    { Upstream(b, <<TitledRecord(1, 1, NoDate, 1), TitledRecord(2, 2, NoDate, 2)>>,
               <<Person(1, 1), Person(2, 1)>>) : b \in RosterBodies } \cup
    { Upstream(b, r, p) :
        b \in {<<Body(1, <<"C","i","t","y"," ","C","o","u","n","c","i","l">>, 1)>>, <<>>},
        r \in {<<>>, <<TitledRecord(1, 1, NoDate, 1)>>},
        p \in RosterPersons }

\* the locals of the members branch
NoRoster ==
    [bodies |-> <<>>, councilBodyIds |-> {}, officeRecords |-> <<>>,
     activeCouncilOffices |-> <<>>, councilPersonIds |-> {}, persons |-> <<>>, query |-> 0]

MembersEvents ==
    {Event("city-council", "GET", NoEnv, [NoQuery EXCEPT !.type = t, !.city = Str(<<"P","h","o","e","n","i","x",","," ","A","Z">>)]) :
        t \in {Str(<<"m","e","m","b","e","r","s">>), Str(<<"p","e","r","s","o","n","s">>)}}

\* Array.prototype.filter
Filter(seq, keep(_)) == SelectSeq(seq, keep)

Range(seq) == {seq[i] : i \in 1..Len(seq)}

primaryKeywords ==
    {<<"c","i","t","y"," ","c","o","u","n","c","i","l">>, <<"t","o","w","n"," ","c","o","u","n","c","i","l">>, <<"m","a","y","o","r"," ","a","n","d"," ","c","o","u","n","c","i","l">>, <<"m","a","y","o","r"," ","&"," ","c","o","u","n","c","i","l">>,
     <<"b","o","a","r","d"," ","o","f"," ","s","u","p","e","r","v","i","s","o","r","s">>, <<"c","o","m","m","o","n"," ","c","o","u","n","c","i","l">>}

broadKeywords == {<<"c","o","u","n","c","i","l">>, <<"m","a","y","o","r">>, <<"a","l","d","e","r","m","e","n">>}

excludeKeywords ==
    {<<"a","d","v","i","s","o","r","y">>, <<"c","o","m","m","i","t","t","e","e">>, <<"c","o","m","m","i","s","s","i","o","n">>, <<"s","u","b","c","o","m","m","i","t","t","e","e">>, <<"t","a","s","k"," ","f","o","r","c","e">>,
     <<"a","u","t","h","o","r","i","t","y">>, <<"b","o","a","r","d"," ","o","f"," ","a","d","j","u","s","t","m","e","n","t">>, <<"p","l","a","n","n","i","n","g">>, <<"z","o","n","i","n","g">>}

excludeNames ==
    {<<"s","y","s","t","e","m">>, <<"m","o","n","i","t","o","r">>, <<"v","i","e","w"," ","o","n","l","y">>, <<"t","e","s","t">>, <<"a","d","m","i","n">>, <<"c","l","e","r","k">>, <<"s","e","c","r","e","t","a","r","y">>,
     <<"a","t","t","o","r","n","e","y">>, <<"m","a","n","a","g","e","r">>, <<"d","i","r","e","c","t","o","r">>, <<"c","o","o","r","d","i","n","a","t","o","r">>, <<"a","n","a","l","y","s","t">>, <<"a","s","s","i","s","t","a","n","t">>, <<"s","t","a","f","f">>}

\* keywords.some(kw => name.includes(kw)) of the lower-cased name
SomeIncluded(keywords, name) == \E kw \in keywords : includes(toLowerCase(name), kw)

IsPrimaryBody(b) == SomeIncluded(primaryKeywords, b.BodyName) /\ b.BodyActiveFlag = 1

IsBroadBody(b) ==
    /\ SomeIncluded(broadKeywords, b.BodyName)
    /\ ~SomeIncluded(excludeKeywords, b.BodyName)
    /\ b.BodyActiveFlag = 1

\* councilBodyIds with the broader search added to the primary bodies
councilBodyIds_mixed(bodies) ==
    LET either(b) == IsPrimaryBody(b) \/ IsBroadBody(b)
    IN {b.BodyId : b \in Range(Filter(bodies, either))}

\* councilBodies.map(b => b.BodyId): the primary bodies, else the broader search
councilBodyIds(bodies) ==
    LET primaryBodies == Filter(bodies, IsPrimaryBody)
        councilBodies == IF Len(primaryBodies) > 0 THEN primaryBodies ELSE Filter(bodies, IsBroadBody)
    IN {b.BodyId : b \in Range(councilBodies)}

\* activeCouncilOffices with a record that ends at the request time kept
activeCouncilOffices_notBefore(officeRecords, bodyIds) ==
    LET keep(r) ==
            /\ bodyIds = {} \/ r.OfficeRecordBodyId \in bodyIds
            /\ r.OfficeRecordEndDate = NoDate \/ r.OfficeRecordEndDate >= now
    IN Filter(officeRecords, keep)

\* officeRecords.filter(or => inCouncilBody && isActive)
activeCouncilOffices(officeRecords, bodyIds) ==
    LET keep(r) ==
            /\ bodyIds = {} \/ r.OfficeRecordBodyId \in bodyIds
            /\ r.OfficeRecordEndDate = NoDate \/ IsAfterNow(r.OfficeRecordEndDate)
    IN Filter(officeRecords, keep)

IsActivePerson(p) == p.PersonActiveFlag = 1

\* councilMembers with the names compared as they are written
councilMembers_caseSensitive(persons, personIds) ==
    LET inOffice(p) == p.PersonId \in personIds
        named(p) == ~\E ex \in excludeNames : includes(p.PersonFullName, ex)
    IN IF personIds # {} THEN Filter(persons, inOffice)
       ELSE Filter(Filter(persons, IsActivePerson), named)

\* Step 4: strictly by id when there are council offices, else the active
\* persons without the system and staff accounts
councilMembers(persons, personIds) ==
    LET inOffice(p) == p.PersonId \in personIds
        named(p) == ~SomeIncluded(excludeNames, p.PersonFullName)
    IN IF personIds # {} THEN Filter(persons, inOffice)
       ELSE Filter(Filter(persons, IsActivePerson), named)

\* title: null, bodyName: null of a member without an office record (the
\* null dates are NoDate)
NoText == "null"

\* enrichedMembers with the last office of each member
enrichedMembers_lastOffice(members, offices) ==
    [i \in 1..Len(members) |->
        LET mine(r) == r.OfficeRecordPersonId = members[i].PersonId
            own == Filter(offices, mine)
        IN [id |-> members[i].PersonId,
            title |-> IF own # <<>> THEN own[Len(own)].OfficeRecordTitle ELSE NoText,
            bodyName |-> IF own # <<>> THEN own[Len(own)].OfficeRecordBodyName ELSE NoText,
            startDate |-> IF own # <<>> THEN own[Len(own)].OfficeRecordStartDate ELSE NoDate,
            endDate |-> IF own # <<>> THEN own[Len(own)].OfficeRecordEndDate ELSE NoDate,
            hasOffice |-> own # <<>>,
            active |-> TRUE]]

\* Step 5: each member with its first office, and active: true
enrichedMembers(members, offices) ==
    [i \in 1..Len(members) |->
        LET mine(r) == r.OfficeRecordPersonId = members[i].PersonId
            own == Filter(offices, mine)
        IN [id |-> members[i].PersonId,
            title |-> IF own # <<>> THEN own[1].OfficeRecordTitle ELSE NoText,
            bodyName |-> IF own # <<>> THEN own[1].OfficeRecordBodyName ELSE NoText,
            startDate |-> IF own # <<>> THEN own[1].OfficeRecordStartDate ELSE NoDate,
            endDate |-> IF own # <<>> THEN own[1].OfficeRecordEndDate ELSE NoDate,
            hasOffice |-> own # <<>>,
            active |-> TRUE]]

membersResponse(r) ==
    LET members == enrichedMembers(councilMembers(r.persons, r.councilPersonIds), r.activeCouncilOffices)
    IN Response(200, CorsHeaders,
                [type |-> "members", members |-> members, totalMembers |-> Len(members),
                 councilBodiesFound |-> Cardinality(r.councilBodyIds)])

\* Step 1: bodies; the failure of the query is caught and leaves bodies = []
MembersBodiesReply ==
    /\ pc = "members:bodies"
    /\ \E ok \in BOOLEAN :
        LET bodies == IF ok THEN upstream.bodies ELSE <<>>
        IN roster' = [roster EXCEPT !.bodies = bodies, !.councilBodyIds = councilBodyIds(bodies)]
    /\ Fetch("OfficeRecords", "members:offices")
    /\ UNCHANGED <<event, response, inflight, settled, local, upstream>>

\* Step 2: office records; the failure of the query is caught
MembersOfficesReply ==
    /\ pc = "members:offices"
    /\ \E ok \in BOOLEAN :
        LET officeRecords == IF ok THEN upstream.officeRecords ELSE <<>>
            offices == activeCouncilOffices(officeRecords, roster.councilBodyIds)
        IN roster' = [roster EXCEPT !.officeRecords = officeRecords,
                                    !.activeCouncilOffices = offices,
                                    !.councilPersonIds =
                                        {r.OfficeRecordPersonId : r \in Range(offices)}]
    /\ Fetch("Persons", "members:persons")
    /\ local' = [local EXCEPT !.try = 1]
    /\ UNCHANGED <<event, response, inflight, settled, upstream>>

\* Step 3: the persons, by $filter=PersonActiveFlag eq 1, then unfiltered with
\* $top=500, then unfiltered; each failure is caught, and the next query is
\* issued if (!persons || persons.length === 0).  Then Steps 4 and 5
MembersPersonsReply ==
    /\ pc = "members:persons"
    /\ \E ok \in BOOLEAN :
        LET persons == IF ~ok THEN (IF local.try = 3 THEN <<>> ELSE roster.persons)
                       ELSE IF local.try = 1 THEN Filter(upstream.persons, IsActivePerson)
                       ELSE upstream.persons
            r == [roster EXCEPT !.persons = persons, !.query = IF ok THEN local.try ELSE @]
        IN /\ roster' = r
           /\ IF local.try < 3 /\ persons = <<>>
              THEN /\ Fetch("Persons", "members:persons")
                   /\ local' = [local EXCEPT !.try = @ + 1]
                   /\ UNCHANGED response
              ELSE /\ Return(membersResponse(r))
                   /\ UNCHANGED <<requests, local>>
    /\ UNCHANGED <<event, inflight, settled, upstream>>

(***************************************************************************)
(* The three-query chains of city-council side by side                     *)
(***************************************************************************)

\* the requests of legislation and of meetings for a verified city
ChainEvents ==
    {Event("city-council", "GET", NoEnv, [NoQuery EXCEPT !.type = t, !.city = Str(<<"P","h","o","e","n","i","x",","," ","A","Z">>)]) :
        t \in {Str(<<"l","e","g","i","s","l","a","t","i","o","n">>), Str(<<"m","a","t","t","e","r","s">>), Str(<<"m","e","e","t","i","n","g","s">>), Str(<<"e","v","e","n","t","s">>)}}

\* rosters without bodies and office records, with each list of persons
ChainRosters == {Upstream(<<>>, <<>>, p) : p \in RosterPersons}
(***************************************************************************)
(* Claims about the stage classifier                                       *)
(***************************************************************************)

\* the ordered rules of the stage classifier as the specification lists them
StageRules == <<
    [keywords |-> {<<"b","e","c","a","m","e"," ","p","u","b","l","i","c"," ","l","a","w">>, <<"s","i","g","n","e","d"," ","b","y"," ","p","r","e","s","i","d","e","n","t">>, <<"e","n","a","c","t","e","d">>},
     display |-> "Signed Into Law", priority |-> 10],
    [keywords |-> {<<"v","e","t","o","e","d">>},
     display |-> "Vetoed", priority |-> 9],
    [keywords |-> {<<"p","a","s","s","e","d"," ","h","o","u","s","e">>, <<"p","a","s","s","e","d"," ","s","e","n","a","t","e">>, <<"a","g","r","e","e","d"," ","t","o"," ","i","n">>},
     display |-> "Passed Chamber", priority |-> 8],
    [keywords |-> {<<"c","l","o","t","u","r","e">>, <<"f","l","o","o","r"," ","c","o","n","s","i","d","e","r","a","t","i","o","n">>, <<"p","l","a","c","e","d"," ","o","n"," ","c","a","l","e","n","d","a","r">>},
     display |-> "Floor Vote Pending", priority |-> 7],
    [keywords |-> {<<"r","e","p","o","r","t","e","d"," ","b","y">>, <<"o","r","d","e","r","e","d"," ","t","o"," ","b","e"," ","r","e","p","o","r","t","e","d">>},
     display |-> "Reported by Committee", priority |-> 6],
    [keywords |-> {<<"h","e","a","r","i","n","g">>, <<"m","a","r","k","u","p">>},
     display |-> "Committee Hearing", priority |-> 5],
    [keywords |-> {<<"r","e","f","e","r","r","e","d"," ","t","o">>, <<"s","u","b","c","o","m","m","i","t","t","e","e">>},
     display |-> "In Committee", priority |-> 4],
    [keywords |-> {<<"i","n","t","r","o","d","u","c","e","d">>, <<"r","e","a","d"," ","t","w","i","c","e">>, <<"s","p","o","n","s","o","r"," ","i","n","t","r","o","d","u","c","t","o","r","y">>},
     display |-> "Introduced", priority |-> 3] >>

RuleMatches(i, t) == \E k \in StageRules[i].keywords : includes(t, k)

MatchingRules(t) == {i \in 1..Len(StageRules) : RuleMatches(i, t)}

\* the text of an action text that is a string or absent, lower-cased
LoweredActionText == toLowerCase(IF actionText.t = "string" THEN actionText.s ELSE <<>>)

\* C1: for every action text (a string, empty or absent) deriveBillStage returns
\* the label and priority of the first rule, in the order 1..8, one of whose
\* keywords occurs case-insensitively in the text, and ("In Progress", 3) when
\* no rule matches; a text with both "introduced" and "referred to" that no
\* rule before the seventh matches is "In Committee"
C1_FirstMatchWins ==
    (stage # NoResult /\ actionText.t \in {"string", "undefined"}) =>
        LET t == LoweredActionText
            m == MatchingRules(t)
        IN /\ m = {} => stage = Stage("In Progress", 3)
           /\ m # {} =>
                LET first == CHOOSE i \in m : \A j \in m : i <= j
                IN stage = Stage(StageRules[first].display, StageRules[first].priority)
           /\ ( /\ includes(t, <<"i","n","t","r","o","d","u","c","e","d">>)
                /\ includes(t, <<"r","e","f","e","r","r","e","d"," ","t","o">>)
                /\ \A i \in 1..6 : i \notin m ) => stage.display = "In Committee"

\* C1 witness: a classified text that holds both "introduced" and "referred to"
\* (rules 7 and 8 both match) and reads "In Committee"
C1_Witness ==
    /\ stage # NoResult
    /\ actionText.t = "string"
    /\ includes(LoweredActionText, <<"i","n","t","r","o","d","u","c","e","d">>)
    /\ includes(LoweredActionText, <<"r","e","f","e","r","r","e","d"," ","t","o">>)
    /\ stage = Stage("In Committee", 4)

(***************************************************************************)
(* Claims about the bill identity normaliser                               *)
(***************************************************************************)

HasDigit(chars) == \E i \in 1..Len(chars) : IsDigit(chars[i])

TypeInTable(v) == v.t = "string" /\ Truthy(TypeMapGet(toLowerCase(v.s)))

\* congress present, type one of the eight codes in either case, and a number
\* (a string, or a positive number) with at least one digit
PrimaryApplies(b) ==
    /\ Truthy(b.congress)
    /\ TypeInTable(b.type)
    /\ \/ b.number.t = "string" /\ HasDigit(b.number.s)
       \/ b.number.t = "number" /\ b.number.n > 0

PrimaryUrl(b) ==
    Str(BillUrl(ordinalSuffix(b.congress),
                TypeMapGet(toLowerCase(b.type.s)).s,
                stripNonDigits(String(b.number))))

\* C4: for a bill whose congress is present, whose type code is one of the
\* eight table entries in either case and whose number has a digit,
\* buildPublicUrl returns .../bill/<ordinal(congress)>-congress/<slug>/<digits>
\* whatever url and apiUrl hold; {119, "hr", "H.R.187"} gives
\* .../119th-congress/house-bill/187
C4_PrimaryUrl ==
    (publicUrl # Pending /\ PrimaryApplies(bill)) =>
        /\ publicUrl = PrimaryUrl(bill)
        /\ ( /\ bill.congress = Num(119)
             /\ bill.type = Str(<<"h","r">>)
             /\ bill.number = Str(<<"H",".","R",".","1","8","7">>) ) =>
                publicUrl = Str(<<"h","t","t","p","s",":","/","/","w","w","w",".","c","o","n","g","r","e","s","s",".","g","o","v","/","b","i","l","l","/","1","1","9","t","h","-","c","o","n","g","r","e","s","s","/","h","o","u","s","e","-","b","i","l","l","/","1","8","7">>)

\* C4 witness: {119, "hr", "H.R.187"} with an API URL of another bill in url
C4_Witness ==
    /\ bill.congress = Num(119)
    /\ bill.type = Str(<<"h","r">>)
    /\ bill.number = Str(<<"H",".","R",".","1","8","7">>)
    /\ bill.url = Str(<<"h","t","t","p","s",":","/","/","a","p","i",".","c","o","n","g","r","e","s","s",".","g","o","v","/","v","3","/","b","i","l","l","/","1","0","1","/","S","J","R","E","S","/","9">>)
    /\ publicUrl = Str(<<"h","t","t","p","s",":","/","/","w","w","w",".","c","o","n","g","r","e","s","s",".","g","o","v","/","b","i","l","l","/","1","1","9","t","h","-","c","o","n","g","r","e","s","s","/","h","o","u","s","e","-","b","i","l","l","/","1","8","7">>)

\* the raw source URL of a bill: bill.url || bill.apiUrl || ""
RawUrl(b) == String(Or(Or(b.url, b.apiUrl), Str(<<>>)))

\* the raw URL parses and its path has "bill" followed by three more segments
HasBillSegments(b) ==
    /\ UrlIsValid(RawUrl(b))
    /\ LET parts == PathParts(RawUrl(b))
       IN IndexOfBill(parts) >= 0 /\ Len(parts) >= IndexOfBill(parts) + 4

\* the fields of the bill are strings, numbers or absent as the upstream sends
\* them: type is a string when it is there
WellTyped(b) == b.type.t \in {"string", "undefined"}

\* the URL the fallback is to give: ordinal(congress), the slug of the table
\* and <type>-bill only for a type that is not in the table
FallbackUrl(b) ==
    LET parts == PathParts(RawUrl(b))
        i == IndexOfBill(parts)
        t == toLowerCase(parts[i + 3])
        slug == IF Truthy(TypeMapGet(t)) THEN TypeMapGet(t).s ELSE t \o <<"-","b","i","l","l">>
    IN Str(BillUrl(ordinalSuffix(Str(parts[i + 2])), slug, parts[i + 4]))

\* C5 (as claimed): when the primary fields are insufficient and the path of the
\* raw source URL has "bill" followed by three segments, the public URL is
\* built from them with ordinal(congress) and the slug table, the generic
\* <type>-bill slug only for a type outside the table, in buildPublicUrl and
\* in the earlier get-bills (toPublicCongressUrl) alike
C5_FallbackUrl ==
    (WellTyped(bill) /\ ~PrimaryApplies(bill) /\ HasBillSegments(bill)) =>
        /\ publicUrl # Pending => publicUrl = FallbackUrl(bill)
        /\ legacyUrl # Pending => legacyUrl = FallbackUrl(bill)

\* C6 (as claimed): the normaliser never raises: for every bill it returns a
\* string, and the host root when neither the primary nor the fallback path
\* succeeds
C6_NeverRaises ==
    /\ publicUrl # Pending =>
        /\ publicUrl.t = "string"
        /\ (~PrimaryApplies(bill) /\ ~HasBillSegments(bill)) => publicUrl = Str(CongressRoot)
    /\ legacyUrl # Pending =>
        /\ legacyUrl.t = "string"
        /\ ~HasBillSegments(bill) => legacyUrl = Str(CongressRoot)

BucketsOf(valueName) ==
    {b \in {"yes", "no", "absent", "abstain"} :
        \/ b = "yes" /\ IsYes(valueName)
        \/ b = "no" /\ IsNo(valueName)
        \/ b = "absent" /\ IsAbsent(valueName)
        \/ b = "abstain" /\ IsAbstain(valueName)}

\* C3 (as claimed): every vote is counted in at most one of the buckets yes, no,
\* absent and abstain, so yes + no + absent + abstain <= total
C3_OneBucketPerVote ==
    summary # NoSummary =>
        /\ \A i \in 1..Len(voteHistory) : Cardinality(BucketsOf(voteHistory[i])) <= 1
        /\ summary.yes + summary.no + summary.absent + summary.abstain <= summary.total


\* the votes whose label contains, whatever the case, one of the keywords
Labelled(keywords) ==
    {i \in 1..Len(voteHistory) :
        /\ voteHistory[i].t = "string"
        /\ \E k \in keywords : includes(toLowerCase(voteHistory[i].s), k)}

\* round(100 * (total - absent) / total), halves upwards
RoundedPercent(total, absent) == (200 * (total - absent) + total) \div (2 * total)

\* C14 (as claimed): the summary has total = the number of votes, each bucket =
\* the number of votes whose label contains one of the bucket's keywords, and
\* attendanceRate = round(100 * (total - absent) / total) when total > 0, no
\* attendanceRate when total = 0
C14_SummaryOfVotes ==
    summary # NoSummary =>
        /\ summary.total = Len(voteHistory)
        /\ summary.yes = Cardinality(Labelled({<<"a","y","e">>, <<"y","e","s">>, <<"a","f","f","i","r","m","a","t","i","v","e">>}))
        /\ summary.no = Cardinality(Labelled({<<"n","a","y">>, <<"n","o">>}))
        /\ summary.absent = Cardinality(Labelled({<<"a","b","s","e","n","t">>, <<"e","x","c","u","s","e","d">>}))
        /\ summary.abstain = Cardinality(Labelled({<<"a","b","s","t","a","i","n">>, <<"p","r","e","s","e","n","t">>}))
        /\ summary.attendanceRate =
              IF summary.total > 0
              THEN Num(RoundedPercent(summary.total, summary.absent))
              ELSE Undef

\* the same without the attendance rate, and the example of ten votes
C14_TotalsAndExample ==
    summary # NoSummary =>
        /\ summary.total = Len(voteHistory)
        /\ summary.yes = Cardinality(Labelled({<<"a","y","e">>, <<"y","e","s">>, <<"a","f","f","i","r","m","a","t","i","v","e">>}))
        /\ summary.no = Cardinality(Labelled({<<"n","a","y">>, <<"n","o">>}))
        /\ summary.absent = Cardinality(Labelled({<<"a","b","s","e","n","t">>, <<"e","x","c","u","s","e","d">>}))
        /\ summary.abstain = Cardinality(Labelled({<<"a","b","s","t","a","i","n">>, <<"p","r","e","s","e","n","t">>}))
        /\ (summary.attendanceRate = Undef) <=> (summary.total = 0)
        /\ voteHistory = TenVotes =>
              summary = [total |-> 10, yes |-> 7, no |-> 1, absent |-> 2, abstain |-> 0,
                         attendanceRate |-> Num(80)]
        /\ voteHistory # FortyVotes => C14_SummaryOfVotes
(***************************************************************************)
(* Properties of the members roster                                        *)
(***************************************************************************)

\* the ids of the members of the response
MemberIds == {response.body.members[i].id : i \in 1..Len(response.body.members)}

\* the persons of the list the persons queries supplied that are in the set
\* of Step 2 and have their active flag set
ActiveCouncilPersonIds ==
    {p.PersonId : p \in {q \in Range(roster.persons) :
        q.PersonId \in roster.councilPersonIds /\ q.PersonActiveFlag = 1}}

\* C2: in the members handler, whenever the office records of Step 2 yield a
\* non-empty set of person ids, the members returned are exactly the persons
\* whose id is in that set and whose active flag is set, whichever of the
\* three persons queries supplied the list of persons.
C2_StrictSelection ==
    (Done /\ roster.councilPersonIds # {} /\ roster.query # 0)
        => MemberIds = ActiveCouncilPersonIds

(***************************************************************************)
(* Properties of the handlers                                              *)
(***************************************************************************)

\* the upstream answered with a status that is not OK, or with no JSON
UpstreamFailed(reply) == reply.kind = "response" /\ (~reply.ok \/ reply.body = "notJson")

IsMatterDetail == event.fn = "city-council" /\ IsType({<<"m","a","t","t","e","r","-","d","e","t","a","i","l">>})

IsBillDetail == event.fn \in BillDetailFns

\* the essential lookup of the handler, and its secondary ones
EssentialLookup == IF IsMatterDetail THEN "Matters/id" ELSE "detail"

SecondaryLookups ==
    IF IsMatterDetail THEN {"Matters/id/Sponsors", "Matters/id/Histories"}
    ELSE {"actions", "summaries", "cosponsors"}

\* the payload a lookup answers with when nothing is wrong with it
WellFormed(name, reply) ==
    /\ reply.kind = "response" /\ reply.ok
    /\ reply.body \in (IF name = "Matters/id" THEN {"object"}
                       ELSE IF name = "detail" THEN {"bill", "billNoTitle"}
                       ELSE IF IsMatterDetail THEN {"array"}
                       ELSE {"list"})

AllSettled == inflight = {} /\ DOMAIN settled = {EssentialLookup} \cup SecondaryLookups

\* C8: in the handlers that issue parallel lookups (matter-detail, bill-detail)
\* the failure of a secondary lookup is replaced by an empty result and the
\* request still answers 200, whereas the failure of the essential lookup is
\* answered with an error response and not with 200.
C8_ParallelLookups ==
    (Done /\ (IsMatterDetail \/ IsBillDetail) /\ AllSettled) =>
        /\ UpstreamFailed(settled[EssentialLookup]) => response.statusCode # 200
        /\ ( /\ WellFormed(EssentialLookup, settled[EssentialLookup])
             /\ \A n \in SecondaryLookups :
                    UpstreamFailed(settled[n]) \/ WellFormed(n, settled[n])
             /\ \E n \in SecondaryLookups : UpstreamFailed(settled[n]) )
           => response.statusCode = 200

IsListEndpoint ==
    \/ event.fn \in GetBillsFns \cup {"state-bills"}
    \/ /\ event.fn = "city-council"
       /\ IsType({<<"l","e","g","i","s","l","a","t","i","o","n">>, <<"m","a","t","t","e","r","s">>, <<"m","e","e","t","i","n","g","s">>, <<"e","v","e","n","t","s">>, <<"v","o","t","e","s">>, <<"a","g","e","n","d","a">>})

\* C9: for the list endpoints (federal bills, state bills, city-council
\* legislation, meetings, votes, agenda), whenever the upstream answers with a
\* status that is not OK or with a malformed payload, the handler responds
\* with status 500 and an error message, never with 200.
C9_UpstreamFailureIs500 ==
    ( /\ Done /\ IsListEndpoint
      /\ local.replies # <<>>
      /\ \A i \in 1..Len(local.replies) : UpstreamFailed(local.replies[i]) )
        => response.statusCode = 500 /\ "error" \in DOMAIN response.body

NeedsCredential == event.fn \in GetBillsFns \cup {"state-bills"} \cup BillDetailFns

CredentialAbsent ==
    /\ NeedsCredential
    /\ IF event.fn = "state-bills" THEN ~event.env.LEGISCAN_API_KEY
       ELSE ~event.env.CONGRESS_API_KEY

\* type or number is missing (bill-detail), state is missing or unknown (state-bills)
ParametersInvalid ==
    \/ event.fn = "state-bills" /\ normalizeState(event.query.state) = <<>>
    \/ event.fn \in BillDetailFns /\ (~Truthy(event.query.type) \/ ~Truthy(event.query.number))

\* C10: in every handler that needs an upstream credential (get-bills,
\* state-bills, bill-detail), when the credential is absent no outbound
\* request is issued at any point of the invocation and the handler answers
\* 500 with an error message, also when the parameters are invalid: the
\* check precedes the validation of the parameters.
C10_NoCredentialNoRequest ==
    CredentialAbsent =>
        /\ requests = <<>> /\ inflight = {}
        /\ pc \in {"start", "done"}
        /\ Done => response.statusCode = 500 /\ "error" \in DOMAIN response.body

\* a handler has answered an invocation without its credential and with
\* invalid parameters
C10_Witness == Done /\ CredentialAbsent /\ ParametersInvalid /\ response.statusCode = 500

(***************************************************************************)
(* Properties of the validation, the catch-all and the headers             *)
(***************************************************************************)

\* the type parameter is one of names
TypeIs(names) == \E n \in names : event.query.type = Str(n)

\* a city-council request that is no pre-flight, with a type other than
\* cities and verify
CouncilRequest ==
    /\ event.fn = "city-council"
    /\ event.httpMethod # "OPTIONS"
    /\ ~TypeIs({<<"c","i","t","i","e","s">>, <<"v","e","r","i","f","y">>})

\* the city parameter names a row of the table that is verified
CityVerified ==
    /\ event.query.city.t = "string"
    /\ \E i \in 1..Len(CITY_DATABASE) :
        CITY_DATABASE[i][1] = event.query.city.s /\ CITY_DATABASE[i][3]

RecognisedTypes ==
    {<<"m","e","m","b","e","r","s">>, <<"p","e","r","s","o","n","s">>, <<"l","e","g","i","s","l","a","t","i","o","n">>, <<"m","a","t","t","e","r","s">>, <<"m","e","e","t","i","n","g","s">>, <<"e","v","e","n","t","s">>,
     <<"v","o","t","e","s">>, <<"m","a","t","t","e","r","-","d","e","t","a","i","l">>, <<"a","g","e","n","d","a">>}

\* the parameter the type requires is missing
RequiredIdMissing ==
    \/ TypeIs({<<"v","o","t","e","s">>}) /\ ~Truthy(event.query.personId)
    \/ TypeIs({<<"m","a","t","t","e","r","-","d","e","t","a","i","l">>}) /\ ~Truthy(event.query.matterId)
    \/ TypeIs({<<"a","g","e","n","d","a">>}) /\ ~Truthy(event.query.eventId)

\* why the request is rejected, "" when it is not
Rejection ==
    IF ~Truthy(event.query.city) THEN "city missing"
    ELSE IF ~CityVerified THEN "city unavailable"
    ELSE IF RequiredIdMissing THEN "id missing"
    ELSE IF ~TypeIs(RecognisedTypes) THEN "type invalid"
    ELSE ""

\* C11: for a city-council request whose type is neither cities nor verify, a
\* missing city answers 400; a city that is not in the table, or not verified,
\* answers 404 whatever the type; for a verified city, votes without personId,
\* matter-detail without matterId and agenda without eventId answer 400; any
\* type outside the recognised set answers 400 with the list of valid types;
\* and no upstream call is made in any of these cases.
C11_Validation ==
    (CouncilRequest /\ Rejection # "") =>
        /\ requests = <<>> /\ inflight = {}
        /\ pc \in {"start", "done"}
        /\ Done =>
            /\ response.statusCode = (IF Rejection = "city unavailable" THEN 404 ELSE 400)
            /\ "error" \in DOMAIN response.body
            /\ Rejection = "type invalid" <=> "validTypes" \in DOMAIN response.body

\* C11 witness: a verified city with a type outside the recognised set has
\* been answered 400 with the valid types
C11_Witness ==
    /\ Done /\ CouncilRequest /\ CityVerified
    /\ event.query.type = Str(<<"b","u","d","g","e","t">>)
    /\ response.statusCode = 400
    /\ "validTypes" \in DOMAIN response.body
    /\ requests = <<>>

\* the state parameter is the full name, in either case, or the two-letter
\* code of one of the 50 states or DC (blanks around it aside)
StateResolvable ==
    /\ event.query.state.t = "string"
    /\ LET s == trim(event.query.state.s)
       IN \E i \in 1..Len(STATE_NAME_TO_ABBR) :
            \/ STATE_NAME_TO_ABBR[i][1] = toLowerCase(s)
            \/ STATE_NAME_TO_ABBR[i][2] = toUpperCase(s)

\* C12: state-bills resolves the state parameter only when it is the full
\* name (case-insensitive) or the two-letter code of one of the 50 states or
\* DC; every other value, a two-letter string that is no state code included,
\* answers 400 without calling the upstream.
C12_StateResolution ==
    (event.fn = "state-bills" /\ event.env.LEGISCAN_API_KEY /\ ~StateResolvable) =>
        /\ requests = <<>>
        /\ Done => response.statusCode = 400

\* C19: every response of the city-council handler, whatever its status,
\* carries the permissive cross-origin headers, and a request with method
\* OPTIONS is answered 200 with an empty body before any parameter is
\* examined and without any upstream call.
C19_CorsEverywhere ==
    event.fn = "city-council" =>
        /\ Done => response.headers = CorsHeaders
        /\ event.httpMethod = "OPTIONS" =>
            /\ requests = <<>> /\ inflight = {}
            /\ pc \in {"start", "done"}
            /\ Done => response.statusCode = 200 /\ response.body = [empty |-> TRUE]

\* C19 witness: a pre-flight request whose parameters would be rejected (votes
\* without a city and a personId) has been answered with the empty 200
C19_Witness ==
    /\ Done /\ event.fn = "city-council" /\ event.httpMethod = "OPTIONS"
    /\ event.query.type = Str(<<"v","o","t","e","s">>) /\ event.query.city = Undef
    /\ response.statusCode = 200 /\ response.headers = CorsHeaders


(***************************************************************************)
(* Claims about the ordinal formatter                                      *)
(***************************************************************************)

\* the suffix of the rule: "th" for 11, 12, 13 modulo 100, else by the last digit
SuffixOf(k) ==
    IF (k % 100) \in {11, 12, 13} THEN <<"t","h">>
    ELSE CASE k % 10 = 1 -> <<"s","t">>
           [] k % 10 = 2 -> <<"n","d">>
           [] k % 10 = 3 -> <<"r","d">>
           [] OTHER -> <<"t","h">>

\* the decimal digits of k, most significant first
RECURSIVE DecimalDigits(_)
DecimalDigits(k) ==
    (IF k >= 10 THEN DecimalDigits(k \div 10) ELSE <<>>) \o <<Digits[(k % 10) + 1]>>

OrdinalOf(k) == Str(DecimalDigits(k) \o SuffixOf(k))

\* C15: for every non-negative integer n, ordinalSuffix(n) is the decimal digits
\* of n followed by "th" when n mod 100 is 11, 12 or 13 and otherwise by "st",
\* "nd", "rd", "th" after the last digit (119th, 101st, 112th), and the copies
\* of the bill-list and bill-detail handlers agree
C15_OrdinalRule ==
    /\ listOrdinal # Pending => listOrdinal = OrdinalOf(ordinalArg.n)
    /\ detailOrdinal # Pending => detailOrdinal = OrdinalOf(ordinalArg.n)
    /\ (listOrdinal # Pending /\ detailOrdinal # Pending) => listOrdinal = detailOrdinal
    /\ (listOrdinal # Pending /\ ordinalArg = Num(119)) => listOrdinal = Str(<<"1","1","9","t","h">>)
    /\ (listOrdinal # Pending /\ ordinalArg = Num(101)) => listOrdinal = Str(<<"1","0","1","s","t">>)
    /\ (listOrdinal # Pending /\ ordinalArg = Num(112)) => listOrdinal = Str(<<"1","1","2","t","h">>)

C15_Witness ==
    /\ ordinalArg = Num(112)
    /\ listOrdinal = Str(<<"1","1","2","t","h">>)
    /\ detailOrdinal = Str(<<"1","1","2","t","h">>)

(***************************************************************************)
(* Claims about the actions of bill-detail                                 *)
(***************************************************************************)

HasDate(a) == DateTime(a.date).t = "number"

\* C18 (as claimed): the actions of the response are in descending
\* (non-increasing) order of date, also when some actions have an empty or
\* unparseable date: no action is listed before an action of a later date
C18_ActionsDescending ==
    actions # Pending =>
        \A i, j \in 1..Len(actions.s) :
            (i < j /\ HasDate(actions.s[i]) /\ HasDate(actions.s[j])) =>
                DateTime(actions.s[i].date).n >= DateTime(actions.s[j].date).n

\* the same when every action has a date
C18_DescendingWhenAllDated ==
    (actions # Pending /\ \A i \in 1..Len(actions.s) : HasDate(actions.s[i])) =>
        C18_ActionsDescending

(***************************************************************************)
(* Claims about the slug of an unknown type code                           *)
(***************************************************************************)

\* a type code that is none of the eight table entries
UnknownType(v) == v.t = "string" /\ v.s # <<>> /\ ~TypeInTable(v)

\* .../bill/<ordinal>-congress/<type>-bill/<digits>, the type lower-cased
GenericSlugUrl(congress, type, number) ==
    BillUrl(ordinalSuffix(congress), toLowerCase(type.s) \o <<"-","b","i","l","l">>,
            stripNonDigits(String(number)))

\* C16 (as claimed): for a bill whose type code is not one of the eight table
\* entries, the bill-list normalizer given congress, type and number produces
\* the URL with the slug "<type>-bill" (lower-cased type)
C16_UnknownTypeSlug ==
    ( /\ publicUrl # Pending
      /\ Truthy(bill.congress)
      /\ UnknownType(bill.type)
      /\ bill.number.t = "string" /\ HasDigit(bill.number.s) ) =>
        publicUrl = Str(GenericSlugUrl(bill.congress, bill.type, bill.number))

\* the same in bill-detail: an unknown type gets the slug "<type>-bill"
C16_BillDetailSlug ==
    ( /\ IsBillDetail /\ Done
      /\ response.statusCode = 200
      /\ UnknownType(event.query.type) ) =>
        response.body.publicUrl =
            GenericSlugUrl(Or(event.query.congress, Str(<<"1","1","9">>)), event.query.type,
                           event.query.number)

C16_BillDetailWitness ==
    /\ IsBillDetail /\ Done
    /\ response.statusCode = 200
    /\ event.query.type = Str(<<"x","y","z">>)
    /\ response.body.publicUrl = <<"h","t","t","p","s",":","/","/","w","w","w",".","c","o","n","g","r","e","s","s",".","g","o","v","/","b","i","l","l","/","1","1","9","t","h","-","c","o","n","g","r","e","s","s","/","x","y","z","-","b","i","l","l","/","1","8","7">>

(***************************************************************************)
(* Claims about the priorities of the bill lists                           *)
(***************************************************************************)

Priorities == {3, 4, 5, 6, 7, 8, 9, 10}

IsText(v) == v.t \in {"string", "undefined"}

OfficesFiltered == IsType({<<"m","e","m","b","e","r","s">>, <<"p","e","r","s","o","n","s">>}) /\ pc \in {"members:persons", "done"}

\* no end date, or an end date in the future
CurrentlyActive(r) == r.OfficeRecordEndDate = NoDate \/ r.OfficeRecordEndDate > now

\* C20 (as claimed): an office record is kept by step 2 if and only if it is
\* currently active and its body is in the selected-body set, the body test
\* being waived only when the Bodies lookup failed or returned nothing
C20_OfficeRecordsKept ==
    OfficesFiltered =>
        \A i \in 1..Len(roster.officeRecords) :
            LET r == roster.officeRecords[i] IN
            (r \in Range(roster.activeCouncilOffices)) <=>
                /\ CurrentlyActive(r)
                /\ roster.bodies = <<>> \/ r.OfficeRecordBodyId \in roster.councilBodyIds

\* the same when some body was selected, or none was returned
C20_KeptWhenBodiesSelected ==
    (OfficesFiltered /\ (roster.councilBodyIds # {} \/ roster.bodies = <<>>)) =>
        C20_OfficeRecordsKept

(***************************************************************************)
(* Claims about the steps of the members roster                            *)
(***************************************************************************)

\* Step 1 of the members branch has run
BodiesSelected ==
    IsType({<<"m","e","m","b","e","r","s">>, <<"p","e","r","s","o","n","s">>}) /\ pc \in {"members:offices", "members:persons", "done"}

\* the end date is a date strictly later than the request time
EndsLater(r) == r.OfficeRecordEndDate \notin {NoDate, BadDate} /\ r.OfficeRecordEndDate - now >= 1

\* the office records fetched that pass the body test of Step 2
InSelectedBody(r) == roster.councilBodyIds = {} \/ r.OfficeRecordBodyId \in roster.councilBodyIds

\* C21: an office record counts as currently active if and only if its end
\* date is absent or strictly later than the request time; a record that ends
\* at the request time, in the past, or on a date that cannot be parsed is
\* not active
C21_CurrentlyActive ==
    OfficesFiltered =>
        \A i \in 1..Len(roster.officeRecords) :
            LET r == roster.officeRecords[i] IN
            InSelectedBody(r) =>
                ((r \in Range(roster.activeCouncilOffices)) <=>
                    (r.OfficeRecordEndDate = NoDate \/ EndsLater(r)))

\* C21 witness: a record that ends at the request time has been dropped
C21_Witness ==
    /\ OfficesFiltered
    /\ Len(roster.officeRecords) = 1
    /\ roster.officeRecords[1].OfficeRecordEndDate = now
    /\ roster.activeCouncilOffices = <<>>

\* the name of a body contains one of the words, whatever the case
BodyNamed(b, words) == \E w \in words : includes(toLowerCase(b.BodyName), w)

ActiveBodies == {b \in Range(roster.bodies) : b.BodyActiveFlag = 1}

PrimarySelection ==
    {b \in ActiveBodies :
        BodyNamed(b, {<<"c","i","t","y"," ","c","o","u","n","c","i","l">>, <<"t","o","w","n"," ","c","o","u","n","c","i","l">>, <<"m","a","y","o","r"," ","a","n","d"," ","c","o","u","n","c","i","l">>,
                      <<"m","a","y","o","r"," ","&"," ","c","o","u","n","c","i","l">>, <<"b","o","a","r","d"," ","o","f"," ","s","u","p","e","r","v","i","s","o","r","s">>, <<"c","o","m","m","o","n"," ","c","o","u","n","c","i","l">>})}

BroadSelection ==
    {b \in ActiveBodies :
        /\ BodyNamed(b, {<<"c","o","u","n","c","i","l">>, <<"m","a","y","o","r">>, <<"a","l","d","e","r","m","e","n">>})
        /\ ~BodyNamed(b, {<<"a","d","v","i","s","o","r","y">>, <<"c","o","m","m","i","t","t","e","e">>, <<"c","o","m","m","i","s","s","i","o","n">>, <<"s","u","b","c","o","m","m","i","t","t","e","e">>,
                           <<"t","a","s","k"," ","f","o","r","c","e">>, <<"a","u","t","h","o","r","i","t","y">>, <<"b","o","a","r","d"," ","o","f"," ","a","d","j","u","s","t","m","e","n","t">>,
                           <<"p","l","a","n","n","i","n","g">>, <<"z","o","n","i","n","g">>})}

\* C22: the selected bodies are the active bodies named by a primary keyword;
\* only when there is none are they the active bodies named by "council",
\* "mayor" or "aldermen" and by no exclusion word.  An inactive body is never
\* selected and the broad set is never mixed with a non-empty primary set
C22_BodySelection ==
    BodiesSelected =>
        /\ roster.councilBodyIds =
              {b.BodyId : b \in IF PrimarySelection # {} THEN PrimarySelection ELSE BroadSelection}
        /\ \A b \in Range(roster.bodies) :
              b.BodyActiveFlag # 1 => b.BodyId \notin roster.councilBodyIds

\* C22 witness: the mayor's office, which the broad search would select, is
\* left out next to the city council
C22_Witness ==
    /\ BodiesSelected
    /\ roster.bodies = <<Body(1, <<"O","f","f","i","c","e"," ","o","f"," ","t","h","e"," ","M","a","y","o","r">>, 1), Body(2, <<"C","i","t","y"," ","C","o","u","n","c","i","l">>, 1)>>
    /\ roster.councilBodyIds = {2}

StaffWords ==
    {<<"s","y","s","t","e","m">>, <<"m","o","n","i","t","o","r">>, <<"v","i","e","w"," ","o","n","l","y">>, <<"t","e","s","t">>, <<"a","d","m","i","n">>, <<"c","l","e","r","k">>, <<"s","e","c","r","e","t","a","r","y">>,
     <<"a","t","t","o","r","n","e","y">>, <<"m","a","n","a","g","e","r">>, <<"d","i","r","e","c","t","o","r">>, <<"c","o","o","r","d","i","n","a","t","o","r">>, <<"a","n","a","l","y","s","t">>, <<"a","s","s","i","s","t","a","n","t">>,
     <<"s","t","a","f","f">>}

\* the ids of the members of the response, in order
MemberIdList == [i \in 1..Len(response.body.members) |-> response.body.members[i].id]

\* the persons fetched with the active flag set and no staff word in the
\* lower-cased full name
FallbackPersons ==
    LET eligible(p) ==
            /\ p.PersonActiveFlag = 1
            /\ ~\E w \in StaffWords : includes(toLowerCase(p.PersonFullName), w)
    IN SelectSeq(roster.persons, eligible)

IsMembersResponse == IsType({<<"m","e","m","b","e","r","s">>, <<"p","e","r","s","o","n","s">>}) /\ Done /\ response.statusCode = 200

\* C23: when Step 2 yields no person identifier, the members returned are
\* exactly the persons with the active flag set whose lower-cased full name
\* contains none of the fourteen staff words; a person without a full name
\* is kept
C23_FallbackMembers ==
    (IsMembersResponse /\ roster.councilPersonIds = {}) =>
        /\ Cardinality(StaffWords) = 14
        /\ MemberIdList = [i \in 1..Len(FallbackPersons) |-> FallbackPersons[i].PersonId]
        /\ \A i \in 1..Len(roster.persons) :
              (roster.persons[i].PersonActiveFlag = 1 /\ roster.persons[i].PersonFullName = <<>>)
                  => roster.persons[i].PersonId \in MemberIds

\* C23 witness: the person without a name is returned, "Test ADMIN" is not
C23_Witness ==
    /\ IsMembersResponse
    /\ roster.councilPersonIds = {}
    /\ MemberIdList = <<6, 2>>
    /\ \E i \in 1..Len(roster.persons) : roster.persons[i].PersonId = 7

\* the office records of Step 2 of the person, in upstream order
OfficesOf(id) ==
    LET mine(r) == r.OfficeRecordPersonId = id IN SelectSeq(roster.activeCouncilOffices, mine)

\* C24: each member takes title, bodyName, startDate and endDate from the
\* first record, in upstream order, of the active selected-body office
\* records of the person; a member with no such record has all four null,
\* and a member of the strict path always has an office
C24_Enrichment ==
    IsMembersResponse =>
        \A i \in 1..Len(response.body.members) :
            LET member == response.body.members[i]
                own == OfficesOf(member.id)
            IN /\ own # <<>> =>
                    /\ member.title = own[1].OfficeRecordTitle
                    /\ member.bodyName = own[1].OfficeRecordBodyName
                    /\ member.startDate = own[1].OfficeRecordStartDate
                    /\ member.endDate = own[1].OfficeRecordEndDate
               /\ own = <<>> =>
                    /\ member.title = NoText /\ member.bodyName = NoText
                    /\ member.startDate = NoDate /\ member.endDate = NoDate
               /\ roster.councilPersonIds # {} => own # <<>>
               /\ roster.councilPersonIds = {} => own = <<>>

\* C24 witness: a member with two office records has the title of the first
C24_Witness ==
    /\ IsMembersResponse
    /\ Len(response.body.members) = 1
    /\ Len(OfficesOf(response.body.members[1].id)) = 2
    /\ response.body.members[1].title = "Mayor"
    /\ response.body.members[1].startDate = 1
(***************************************************************************)
(* Specifications                                                          *)
(***************************************************************************)

\* no invocation
HandlersIdle ==
    /\ event = Event("none", "GET", NoEnv, NoQuery)
    /\ pc = "idle"
    /\ requests = <<>>
    /\ inflight = {}
    /\ settled = NoSettled
    /\ local = NoLocal
    /\ response = NoResponse
    /\ upstream = NoUpstream
    /\ roster = NoRoster

\* one invocation of a handler with the event e
Invoked(e) ==
    /\ event = e
    /\ pc = "start"
    /\ requests = <<>>
    /\ inflight = {}
    /\ settled = NoSettled
    /\ local = NoLocal
    /\ response = NoResponse
    /\ roster = NoRoster

InitStage == StageInit /\ UrlIdle /\ VotesIdle /\ HandlersIdle /\ OrdinalIdle /\ ActionsIdle /\ PriorityIdle

NextStage == DeriveBillStage /\ UNCHANGED <<urlVars, votesVars, handlerVars, ordinalVars, actionsVars, priorityVars>>

\* the stage classifier applied to every action text of the model
SpecStage == InitStage /\ [][NextStage]_vars

InitUrl == UrlInit /\ StageIdle /\ VotesIdle /\ HandlersIdle /\ OrdinalIdle /\ ActionsIdle /\ PriorityIdle

NextUrl ==
    \/ BuildPublicUrl /\ UNCHANGED <<stageVars, votesVars, handlerVars, ordinalVars, actionsVars, priorityVars>>
    \/ LegacyPublicUrl /\ UNCHANGED <<stageVars, votesVars, handlerVars, ordinalVars, actionsVars, priorityVars>>
    \/ ReparsePublicUrl /\ UNCHANGED <<stageVars, votesVars, handlerVars, ordinalVars, actionsVars, priorityVars>>

\* the URL normalisers applied to every bill of the model
SpecUrl == InitUrl /\ [][NextUrl]_vars

InitVotes == VotesInit /\ StageIdle /\ UrlIdle /\ HandlersIdle /\ OrdinalIdle /\ ActionsIdle /\ PriorityIdle

NextVotes == SummariseVotes /\ UNCHANGED <<stageVars, urlVars, handlerVars, ordinalVars, actionsVars, priorityVars>>

\* the votes summary computed for every vote list of the model
SpecVotes == InitVotes /\ [][NextVotes]_vars

InitHandlers ==
    /\ \E e \in GetBillsEvents \cup StateBillsEvents \cup StateBillsStubEvents
                 \cup BillDetailEvents \cup CityCouncilEvents : Invoked(e)
    /\ upstream = NoUpstream
    /\ StageIdle /\ UrlIdle /\ VotesIdle /\ OrdinalIdle /\ ActionsIdle /\ PriorityIdle

NextHandlers ==
    \/ GetBillsStart /\ UNCHANGED <<stageVars, urlVars, votesVars, ordinalVars, actionsVars, priorityVars, upstream, roster>>
    \/ GetBillsReply /\ UNCHANGED <<stageVars, urlVars, votesVars, ordinalVars, actionsVars, priorityVars, upstream, roster>>
    \/ StateBillsStart /\ UNCHANGED <<stageVars, urlVars, votesVars, ordinalVars, actionsVars, priorityVars, upstream, roster>>
    \/ StateBillsReply /\ UNCHANGED <<stageVars, urlVars, votesVars, ordinalVars, actionsVars, priorityVars, upstream, roster>>
    \/ StateBillsStub /\ UNCHANGED <<stageVars, urlVars, votesVars, ordinalVars, actionsVars, priorityVars, upstream, roster>>
    \/ BillDetailStart /\ UNCHANGED <<stageVars, urlVars, votesVars, ordinalVars, actionsVars, priorityVars, upstream, roster>>
    \/ BillDetailSettle /\ UNCHANGED <<stageVars, urlVars, votesVars, ordinalVars, actionsVars, priorityVars, upstream, roster>>
    \/ BillDetailAiReply /\ UNCHANGED <<stageVars, urlVars, votesVars, ordinalVars, actionsVars, priorityVars, upstream, roster>>
    \/ BillDetailCommitteesReply /\ UNCHANGED <<stageVars, urlVars, votesVars, ordinalVars, actionsVars, priorityVars, upstream, roster>>
    \/ CityCouncilStart /\ UNCHANGED <<stageVars, urlVars, votesVars, ordinalVars, actionsVars, priorityVars, upstream, roster>>
    \/ ChainReply /\ UNCHANGED <<stageVars, urlVars, votesVars, ordinalVars, actionsVars, priorityVars, upstream, roster>>
    \/ SingleReply /\ UNCHANGED <<stageVars, urlVars, votesVars, ordinalVars, actionsVars, priorityVars, upstream, roster>>
    \/ MatterDetailSettle /\ UNCHANGED <<stageVars, urlVars, votesVars, ordinalVars, actionsVars, priorityVars, upstream, roster>>
    \/ VerifyReply /\ UNCHANGED <<stageVars, urlVars, votesVars, ordinalVars, actionsVars, priorityVars, upstream, roster>>

\* one invocation of get-bills, state-bills, bill-detail or city-council
\* (members apart), with every reply of the upstream
SpecHandlers == InitHandlers /\ [][NextHandlers]_vars

InitMembers ==
    /\ \E e \in MembersEvents : Invoked(e)
    /\ upstream \in UpstreamValues
    /\ StageIdle /\ UrlIdle /\ VotesIdle /\ OrdinalIdle /\ ActionsIdle /\ PriorityIdle

NextMembers ==
    \/ CityCouncilStart /\ UNCHANGED <<stageVars, urlVars, votesVars, ordinalVars, actionsVars, priorityVars, upstream, roster>>
    \/ MembersBodiesReply /\ UNCHANGED <<stageVars, urlVars, votesVars, ordinalVars, actionsVars, priorityVars>>
    \/ MembersOfficesReply /\ UNCHANGED <<stageVars, urlVars, votesVars, ordinalVars, actionsVars, priorityVars>>
    \/ MembersPersonsReply /\ UNCHANGED <<stageVars, urlVars, votesVars, ordinalVars, actionsVars, priorityVars>>

\* one invocation of city-council with type=members, for every roster the
\* upstream may hold
SpecMembers == InitMembers /\ [][NextMembers]_vars


InitOrdinal == OrdinalInit /\ StageIdle /\ UrlIdle /\ VotesIdle /\ HandlersIdle /\ ActionsIdle /\ PriorityIdle

NextOrdinal ==
    \/ OrdinalSuffixList /\ UNCHANGED <<stageVars, urlVars, votesVars, handlerVars, actionsVars, priorityVars>>
    \/ OrdinalSuffixDetail /\ UNCHANGED <<stageVars, urlVars, votesVars, handlerVars, actionsVars, priorityVars>>

\* both copies of ordinalSuffix applied to every congress number of the model
SpecOrdinal == InitOrdinal /\ [][NextOrdinal]_vars

InitActions == ActionsInit /\ StageIdle /\ UrlIdle /\ VotesIdle /\ HandlersIdle /\ OrdinalIdle /\ PriorityIdle

NextActions == SortActions /\ UNCHANGED <<stageVars, urlVars, votesVars, handlerVars, ordinalVars, priorityVars>>

\* the actions of bill-detail sorted, for every actions list of the model
SpecActions == InitActions /\ [][NextActions]_vars

InitPriority == PriorityInit /\ UrlIdle /\ VotesIdle /\ HandlersIdle /\ OrdinalIdle /\ ActionsIdle

NextPriority ==
    \/ DeriveBillStage /\ UNCHANGED <<urlVars, votesVars, handlerVars, ordinalVars, actionsVars, priorityVars>>
    \/ StatusPriority /\ UNCHANGED <<stageVars, urlVars, votesVars, handlerVars, ordinalVars, actionsVars>>
    \/ StatusPriorityFromStatusText /\ UNCHANGED <<stageVars, urlVars, votesVars, handlerVars, ordinalVars, actionsVars>>

\* the three priority rankings of the bill-list handlers applied to every
\* action and status text of the model
SpecPriority == InitPriority /\ [][NextPriority]_vars

InitRoster ==
    /\ \E e \in MembersEvents : Invoked(e)
    /\ upstream \in RosterValues
    /\ StageIdle /\ UrlIdle /\ VotesIdle /\ OrdinalIdle /\ ActionsIdle /\ PriorityIdle

\* one invocation of city-council with type=members, for rosters with
\* several office records per person, unnamed persons and every kind of
\* end date
SpecRoster == InitRoster /\ [][NextMembers]_vars

InitChains ==
    /\ \/ \E e \in ChainEvents : Invoked(e) /\ upstream = NoUpstream
       \/ \E e \in MembersEvents : Invoked(e) /\ upstream \in ChainRosters
    /\ StageIdle /\ UrlIdle /\ VotesIdle /\ OrdinalIdle /\ ActionsIdle /\ PriorityIdle

NextChains ==
    \/ CityCouncilStart /\ UNCHANGED <<stageVars, urlVars, votesVars, ordinalVars, actionsVars, priorityVars, upstream, roster>>
    \/ ChainReply /\ UNCHANGED <<stageVars, urlVars, votesVars, ordinalVars, actionsVars, priorityVars, upstream, roster>>
    \/ MembersBodiesReply /\ UNCHANGED <<stageVars, urlVars, votesVars, ordinalVars, actionsVars, priorityVars>>
    \/ MembersOfficesReply /\ UNCHANGED <<stageVars, urlVars, votesVars, ordinalVars, actionsVars, priorityVars>>
    \/ MembersPersonsReply /\ UNCHANGED <<stageVars, urlVars, votesVars, ordinalVars, actionsVars, priorityVars>>

\* one invocation of legislation, meetings or members: the three chains of
\* queries with every reply of the upstream
SpecChains == InitChains /\ [][NextChains]_vars
(***************************************************************************)
(* Properties of the invocation as a whole                                 *)
(***************************************************************************)

\* the handlers and types whose upstream call has no catch of its own
HasNoLocalCatch ==
    \/ event.fn \in GetBillsFns \cup {"state-bills"}
    \/ event.fn = "city-council" /\ TypeIs({<<"v","o","t","e","s">>, <<"a","g","e","n","d","a">>})

\* the awaits a handler may be suspended at: each has an action that resumes
\* the handler with every outcome of the call
AwaitLabels ==
    {"get-bills:fetch", "state-bills:fetch", "bill-detail:all", "bill-detail:ai",
     "bill-detail:committees", "legislation:try", "meetings:try", "votes:fetch",
     "agenda:fetch", "matter-detail:all", "verify:persons", "verify:matters",
     "verify:events"}

\* C13: no handler invocation ends by raising: for every request and every
\* outcome of the outbound calls the handler is at its start, suspended at an
\* await that some outcome resumes, or has returned a response object with a
\* status code; and a failure that nothing else catches becomes status 500
\* with an error field.
C13_NeverRaises ==
    /\ pc \in {"start", "done"} \cup AwaitLabels
    /\ pc \in {"bill-detail:all", "matter-detail:all"} => inflight # {}
    /\ Done =>
        /\ response # NoResponse
        /\ response.statusCode \in {200, 400, 404, 500}
        /\ response.statusCode = 500 => "error" \in DOMAIN response.body
        /\ ( /\ HasNoLocalCatch /\ local.replies # <<>>
             /\ local.replies[Len(local.replies)].kind = "throw" )
           => response.statusCode = 500

\* C13 witness: the fetch of a handler without a catch of its own has thrown
\* and the invocation was answered 500 with an error
C13_Witness ==
    /\ Done /\ HasNoLocalCatch
    /\ local.replies # <<>> /\ local.replies[Len(local.replies)].kind = "throw"
    /\ response.statusCode = 500
    /\ "error" \in DOMAIN response.body


(***************************************************************************)
(* Claims about the three-query chains                                     *)
(***************************************************************************)

\* the request is one of legislation or meetings, or of members
IsListChain == IsType({<<"l","e","g","i","s","l","a","t","i","o","n">>, <<"m","a","t","t","e","r","s">>, <<"m","e","e","t","i","n","g","s">>, <<"e","v","e","n","t","s">>})

IsPersonsChain == IsType({<<"m","e","m","b","e","r","s">>, <<"p","e","r","s","o","n","s">>})

\* the queries of the chain issued so far
ChainQueries ==
    LET ofChain(name) == name \in {"Matters", "Events", "Persons"}
    IN SelectSeq(requests, ofChain)

\* the query failed, or returned nothing or an empty list
NoResultFrom(reply) ==
    \/ reply.kind = "throw" \/ ~reply.ok \/ reply.body \in {"notJson", "null"}
    \/ reply.body = "array" /\ reply.count = 0

\* C25: the chains of legislation, meetings and the persons of members try
\* their queries in a fixed order: query k+1 is issued only if every earlier
\* query failed or returned an empty list, the first non-empty result is the
\* one used and no query is issued after it, and at most three queries are
\* issued, each at most once
C25_OrderedQueries ==
    /\ (IsListChain \/ IsPersonsChain) =>
          /\ Len(ChainQueries) <= 3
          /\ pc \in {"legislation:try", "meetings:try", "members:persons"} =>
                local.try = Len(ChainQueries)
    /\ IsListChain =>
          /\ Len(local.replies) \in {Len(ChainQueries), Len(ChainQueries) - 1}
          /\ \A k \in 1..(Len(ChainQueries) - 1) : NoResultFrom(local.replies[k])
          /\ (pc \in {"legislation:try", "meetings:try"}) =>
                (local.list.shape = "null" \/ local.list = EmptyArray)
          /\ Done =>
                /\ Len(local.replies) = Len(ChainQueries)
                /\ LET last == local.replies[Len(local.replies)]
                   IN IF NoResultFrom(last)
                      THEN /\ Len(ChainQueries) = 3
                           /\ response.statusCode = 200 => response.body.items = 0
                      ELSE IF last.body = "array"
                      THEN response.statusCode = 200 /\ response.body.items = last.count
                      ELSE response.statusCode = 500
    /\ IsPersonsChain =>
          /\ pc = "members:persons" => roster.persons = <<>>
          /\ (Done /\ roster.persons # <<>>) => roster.query = Len(ChainQueries)
          /\ (Done /\ roster.persons = <<>>) => Len(ChainQueries) = 3

\* C25 witness: the second query of legislation supplied the list after the
\* first returned an empty one, and no third was issued
C25_Witness ==
    /\ IsListChain /\ Done
    /\ Len(ChainQueries) = 2
    /\ local.replies = <<Reply(TRUE, "array", 0), Reply(TRUE, "array", 2)>>
    /\ response.body.items = 2

\* the same for the persons of members
C25_PersonsWitness ==
    /\ IsPersonsChain /\ Done
    /\ Len(ChainQueries) = 2
    /\ roster.query = 2
    /\ roster.persons # <<>>

(***************************************************************************)
(* Properties of the parallel lookups and of the AI summary                *)
(***************************************************************************)

\* the handler is one that awaits Promise.all and has issued its lookups
LookupsIssued ==
    /\ IsMatterDetail \/ IsBillDetail
    /\ requests # <<>>

\* C26: in bill-detail and matter-detail every lookup is issued before any is
\* awaited, and the response is produced only after every lookup has
\* completed, also when one of them fails.
C26_ResponseAfterAllLookups ==
    LookupsIssued =>
        /\ ({EssentialLookup} \cup SecondaryLookups) \subseteq {requests[i] : i \in 1..Len(requests)}
        /\ Done => inflight = {}

\* the AI requests issued so far
AiRequests == {i \in 1..Len(requests) : requests[i] = "anthropic:messages"}

\* C27: in bill-detail the AI request is attempted if and only if the AI
\* credential is configured, whatever summaries and title the upstream
\* returned; it is issued at most once, and its failure leaves
\* plainEnglishSummary empty and the status 200.
C27_AiIffCredential ==
    (event.fn = "bill-detail" /\ Done /\ requests # <<>>) =>
        /\ Cardinality(AiRequests) <= 1
        /\ AiRequests # {} => event.env.ANTHROPIC_API_KEY /\ response.statusCode = 200
        /\ response.statusCode = 200 =>
              /\ event.env.ANTHROPIC_API_KEY => AiRequests # {}
              /\ response.body.plainEnglishSummary => AiRequests # {}

(***************************************************************************)
(* Properties of the verification report                                   *)
(***************************************************************************)

IsVerify ==
    /\ event.fn = "city-council"
    /\ event.httpMethod # "OPTIONS"
    /\ IsType({<<"v","e","r","i","f","y">>})

\* the three queries of verifyCity, in the order of its checks
VerifyQueries == <<"Persons", "Matters", "Events">>

\* the upstream call of a check failed: it threw, or answered no array
CheckCallFailed(reply) == LegistarThrows(reply) \/ reply.body # "array"

\* C29: type=verify with a client answers 200 with a report, needs no city,
\* and runs the checks persons, legislation, events in that order; a check
\* whose upstream call fails is recorded with pass false and count 0 and the
\* later checks still run; overallPass is true exactly when the persons check
\* or the legislation check passed.  Without a client the answer is 400 and no
\* upstream call is made.
C29_VerifyReport ==
    IsVerify =>
        IF ~Truthy(event.query.client)
        THEN /\ requests = <<>>
             /\ Done => response.statusCode = 400
        ELSE /\ Len(requests) <= Len(VerifyQueries)
             /\ requests = SubSeq(VerifyQueries, 1, Len(requests))
             /\ Len(local.checks) = Len(local.replies)
             /\ \A i \in 1..Len(local.checks) :
                    /\ local.checks[i].pass <=> local.checks[i].count > 0
                    /\ CheckCallFailed(local.replies[i]) =>
                           ~local.checks[i].pass /\ local.checks[i].count = 0
                    /\ (i > 1 /\ ~CheckCallFailed(local.replies[i])) =>
                           local.checks[i].count = local.replies[i].count
             /\ Done =>
                    /\ response.statusCode = 200
                    /\ response.body.type = "verification-report"
                    /\ requests = VerifyQueries
                    /\ response.body.checks = local.checks
                    /\ Len(local.checks) = 3
                    /\ response.body.overallPass <=>
                           (local.checks[1].pass \/ local.checks[2].pass)

\* C29 witness: no city; the persons query throws, the matters query answers
\* an object, the events check passes, and the report says overallPass false
C29_Witness ==
    /\ IsVerify /\ Done
    /\ event.query.city = Undef
    /\ Len(local.replies) = 3
    /\ local.replies[1] = Thrown
    /\ local.replies[2] = Reply(TRUE, "object", 0)
    /\ local.checks[3].pass
    /\ response.statusCode = 200
    /\ ~response.body.overallPass

(***************************************************************************)
(* Properties of ordinalSuffix on a non-numeric input                      *)
(***************************************************************************)

\* a URL that has been built holds the text "NaN"
HoldsNaN(url) == url.t = "string" /\ includes(url.s, <<"N","a","N">>)

\* C28: for a non-numeric input ordinalSuffix returns the output of the input
\* 0, "0th", and never a string that holds "NaN"; no URL of buildPublicUrl,
\* by the primary path or by the fallback path, holds a "NaNth-congress"
\* segment.
C28_NaNSafeOrdinal ==
    /\ (publicUrl # Pending /\ bill.congress.t = "string" /\ Number(bill.congress).t = "NaN")
          => ordinalSuffix(bill.congress) = <<"0","t","h">>
    /\ ~HoldsNaN(publicUrl)
    /\ ~HoldsNaN(reparsedUrl)

(***************************************************************************)
(* Properties of the pagination of state-bills                             *)
(***************************************************************************)

\* a query value that is the text of a non-negative integer
IsCountText(v) == v.t = "string" /\ v.s # <<>> /\ \A i \in 1..Len(v.s) : IsDigit(v.s[i])

\* the bill entries of the master list LegiScan answered with
MasterListBills ==
    LET reply == local.replies[1] IN
    IF reply.body = "masterlist" THEN reply.count ELSE 0

\* C30: in every 200 response of state-bills the limit is an integer in
\* 0..200 and the offset a non-negative integer, a negative or non-numeric
\* query value falling back to 50 and 0; total_estimate is the number of bill
\* entries of the master list without the "session" key; returned is
\* min(limit, max(0, total_estimate - offset)) and the length of bills, and
\* the page is the contiguous slice of the master list that starts at offset.
C30_Pagination ==
    (event.fn = "state-bills" /\ Done /\ response.statusCode = 200) =>
        LET p == response.body.pagination
            q == event.query
        IN /\ p.limit \in 0..LimitCap
           /\ p.offset \in Nat
           /\ ~IsCountText(q.limit) => p.limit = DefaultLimit
           /\ ~IsCountText(q.offset) => p.offset = 0
           /\ p.total_estimate = MasterListBills
           /\ p.returned = Min(p.limit, Max(0, p.total_estimate - p.offset))
           /\ p.returned = response.body.bills
           /\ Len(response.body.ids) = p.returned
           /\ \A i \in 1..p.returned : response.body.ids[i] = NatToString(p.offset + i)
=============================================================================
